---- MODULE Spec2Model ----
(***************************************************************************)
(* A model of the update pipeline of pylogram: the Dispatcher              *)
(* (src/pylogram/dispatcher.py), Client.handle_updates and the message     *)
(* Cache (src/pylogram/client.py).                                         *)
(*                                                                         *)
(* Python sets are iterated in an order the language leaves unspecified    *)
(* (for Handler objects it follows the objects' addresses), so every       *)
(* iteration over a group is a nondeterministic choice of order.           *)
(***************************************************************************)
EXTENDS Integers, Sequences, FiniteSets, TLC

\* ------------------------------------------------------------------ bounds
MaxWorkers == 2         \* largest value of Client.workers that is explored
MaxUpdates == 2         \* updates put on the dispatcher queue in one behaviour
MaxStarts == 2          \* calls of Dispatcher.start in one behaviour
MaxMiddlewares == 2     \* middlewares registered in one behaviour
MaxCapacity == 3        \* largest Cache capacity that is explored
MaxKeys == 4            \* distinct keys assigned to the Cache
MaxBatch == 2           \* updates in one Updates batch
MaxChannels == 2        \* distinct channels the updates of a batch come from
MaxTime == 10           \* minutes of wall-clock time that are explored
MaxDownloads == 3       \* get_file generators in one behaviour
MaxFileLen == 7         \* largest length of a file, in units of 256 KiB
MaxReuploads == 1       \* CdnFileReuploadNeeded answers in one download
MaxTransmissions == 2   \* largest max_concurrent_transmissions that is explored
MaxLoads == 2           \* calls of load_session in one behaviour
MaxObjects == 3         \* Object instances on the heap
MaxAttrs == 2           \* attributes of an Object besides _client and _raw
MaxListLen == 1         \* largest length of a list held by an attribute
MaxCalls == 2           \* add_handler and remove_handler calls during one dispatch

HandlerNames == {"H1", "H2", "H3"}
GroupIds == {0, 1}
MiddlewareNames == 1..MaxMiddlewares

\* ------------------------------------------------------------------ helpers
Range(s) == {s[i] : i \in 1..Len(s)}

Reverse(s) == [i \in 1..Len(s) |-> s[Len(s) + 1 - i]]

IsPrefix(s, t) == Len(s) <= Len(t) /\ \A i \in 1..Len(s) : s[i] = t[i]

RECURSIVE SeqOfSet(_)
\* the sorted sequence of a finite set of integers
SeqOfSet(S) ==
    IF S = {} THEN <<>>
    ELSE LET m == CHOOSE x \in S : \A y \in S : x <= y
         IN <<m>> \o SeqOfSet(S \ {m})

\* ------------------------------------------------------------------ state
VARIABLES
    workers,                \* Client.workers
    no_updates,             \* Client.no_updates
    handlers,               \* the Handler objects created: name -> [cls, filt, cb]
    groups,                 \* Dispatcher.groups: the OrderedDict as a sequence of [id, hs]
    disp,                   \* the frame of a handle_update call suspended at an await
    middlewares,            \* Dispatcher.middlewares
    mwcalls,                \* per middleware: does it call its call_next
    middlewares_handlers,   \* Dispatcher.__middlewares_handlers
    run_middlewares,        \* Dispatcher.__run_middlewares
    updates_queue,          \* Dispatcher.updates_queue: update ids, 0 for None
    tasks,                  \* every handler_worker task created: [pc, u]
    handler_worker_tasks,   \* Dispatcher.handler_worker_tasks: indices into tasks
    stop_pc,                \* position of a running Dispatcher.stop call
    upd,                    \* the updates put on the queue, with what happened to them
    starts,                 \* calls of Dispatcher.start so far
    stops,                  \* calls of Dispatcher.stop so far
    started_with,           \* Dispatcher.middlewares as the last start() found it
    capacity,               \* Cache.capacity
    store,                  \* Cache.store: the dict as a sequence of [key, value]
    got,                    \* what the last Cache.__getitem__ returned
    evicted,                \* how many entries the last Cache.__setitem__ evicted
    found,                  \* `key in self.store` in the last Cache.__setitem__
    ignore_channel_updates_except,  \* Client.ignore_channel_updates_except
    hu,                     \* the running Client.handle_updates call
    events,                 \* what that call has done: invocations, merges, puts
    now,                    \* datetime.now(), in minutes since the Client was constructed
    last_update_time,       \* Client.last_update_time
    handled,                \* when handle_updates was last called (0: never)
    updates_watchdog_event, \* Client.updates_watchdog_event is set
    watchdog,               \* position of the updates_watchdog task: [pc, deadline]
    wd_ticks,               \* the idle checks of the watchdog: [t, handled, invoked]
    max_concurrent_transmissions,   \* Client.max_concurrent_transmissions
    permits,                \* the value of Client.get_file_semaphore
    dl,                     \* the get_file generators: download id -> its frame
    storage,                \* Client.storage: field -> value, None when unset
    api_id,                 \* Client.api_id
    api_hash,               \* Client.api_hash
    test_mode,              \* Client.test_mode
    ls,                     \* the running Client.load_session call
    handshakes,             \* the Auth(...).create() calls of load_session
    objects,                \* the Object instances: id -> [client, dict]
    bound,                  \* the last Object.bind call: [o, client]
    media_sessions,         \* Client.media_sessions: the DC ids it has a session for
    peers_written,          \* the update_storage_peers calls of the last handle_updates
    locks_list              \* Dispatcher.locks_list: per lock, whether it is held

configVars == <<workers, no_updates>>

registryVars == <<handlers, groups, disp>>

middlewareVars == <<middlewares, mwcalls, middlewares_handlers, run_middlewares,
                    started_with>>

cacheVars == <<capacity, store, got, evicted, found>>

updatesVars == <<ignore_channel_updates_except, hu, events>>

watchdogVars == <<now, last_update_time, handled, updates_watchdog_event, watchdog,
                  wd_ticks>>

downloadVars == <<max_concurrent_transmissions, permits, dl>>

storageVars == <<storage, api_id, api_hash, test_mode, ls, handshakes>>

objectVars == <<objects, bound>>

mediaVars == <<media_sessions>>

peerVars == <<peers_written>>

lockVars == <<locks_list>>

vars == <<configVars, registryVars, middlewareVars, cacheVars, updatesVars, watchdogVars,
          downloadVars, storageVars, objectVars, mediaVars, peerVars, lockVars,
          updates_queue, tasks, handler_worker_tasks, stop_pc, upd, starts, stops>>

\* ------------------------------------------------------------------ Dispatcher
NEW_MESSAGE_UPDATES == {"UpdateNewMessage", "UpdateNewChannelMessage", "UpdateNewScheduledMessage"}

EDIT_MESSAGE_UPDATES == {"UpdateEditMessage", "UpdateEditChannelMessage"}

\* every message update is given the handler type of new messages
update_parsers_messages(type) ==
    CASE type \in NEW_MESSAGE_UPDATES \cup EDIT_MESSAGE_UPDATES -> "MessageHandler"
      [] OTHER -> "NoneType"

\* update_parsers.get(type(update)): the handler type the parser returns,
\* "NoneType" when there is no parser
update_parsers(type) ==
    CASE type \in NEW_MESSAGE_UPDATES -> "MessageHandler"
      [] type \in EDIT_MESSAGE_UPDATES -> "EditedMessageHandler"
      [] OTHER -> "NoneType"

GroupIndex(gs, g) == CHOOSE i \in 1..Len(gs) : gs[i].id = g

HasGroup(gs, g) == \E i \in 1..Len(gs) : gs[i].id = g

\* self.groups.setdefault(group, set()): a missing key is appended at the end
SetDefault(gs, g) == IF HasGroup(gs, g) THEN gs ELSE Append(gs, [id |-> g, hs |-> {}])

\* OrderedDict(sorted(self.groups.items()))
SortGroups(gs) ==
    LET ids == SeqOfSet({gs[i].id : i \in 1..Len(gs)})
    IN [i \in 1..Len(ids) |-> gs[GroupIndex(gs, ids[i])]]

\* add_handler without the sort that follows the insertion
GroupsAfterAddNoSort(gs, h, g) ==
    LET d == SetDefault(gs, g)
        i == GroupIndex(d, g)
    IN [d EXCEPT ![i].hs = @ \cup {h}]

\* the groups as add_handler leaves them
GroupsAfterAdd(gs, h, g) ==
    LET d == SetDefault(gs, g)
        i == GroupIndex(d, g)
    IN SortGroups([d EXCEPT ![i].hs = @ \cup {h}])

\* the groups as remove_handler leaves them
GroupsAfterRemove(gs, h, g) ==
    LET d == SetDefault(gs, g)
        i == GroupIndex(d, g)
    IN [d EXCEPT ![i].hs = @ \ {h}]

\* HandlerStep without the break that follows a callback: a callback that
\* returns lets the loop go on to the next handler of the group
HandlerStepNoBreak(h, handler_type) ==
    LET c == handlers[h]
        o == IF c.cls = handler_type
             THEN CASE c.filt = "match" -> c.cb
                    [] c.filt = "raise" -> "checkerror"
                    [] OTHER -> "nomatch"
             ELSE IF c.cls = "RawUpdateHandler" THEN c.cb
             ELSE "skip"
    IN IF o \in {"return", "error"} THEN "ContinuePropagation" ELSE o

\* a check() that raises ends the dispatch like a StopPropagation
HandlerStepCheckStops(h, handler_type) ==
    LET c == handlers[h]
    IN IF c.cls = handler_type
       THEN CASE c.filt = "match" -> c.cb
              [] c.filt = "raise" -> "StopPropagation"
              [] OTHER -> "nomatch"
       ELSE IF c.cls = "RawUpdateHandler" THEN c.cb
       ELSE "skip"

\* the body of the inner loop of handle_update for a handler object c:
\* isinstance(handler, handler_type) and check(), else
\* isinstance(handler, RawUpdateHandler), then the callback
HandlerOutcome(c, handler_type) ==
    IF c.cls = handler_type
    THEN CASE c.filt = "match" -> c.cb
           [] c.filt = "raise" -> "checkerror"
           [] OTHER -> "nomatch"
    ELSE IF c.cls = "RawUpdateHandler" THEN c.cb
    ELSE "skip"

\* what one pass of the inner loop of handle_update does with handler h:
\* "skip" (continue without a call), "nomatch" (check() was called and returned
\* False), "checkerror" (check() raised, which is logged) or the outcome of the
\* callback
HandlerStep(h, handler_type) == HandlerOutcome(handlers[h], handler_type)

\* every callback is given the parsed update
ArgsParsed(c, handler_type) == "parsed_update"

\* the arguments of the callback: args = (parsed_update,) for a handler of
\* handler_type, args = (update, users, chats) for a RawUpdateHandler
Args(c, handler_type) ==
    IF c.cls = handler_type THEN "parsed_update" ELSE "update, users, chats"

\* the calls one pass of the inner loop makes on handler h: check() for a handler
\* of handler_type, then the callback unless the pass ended before it
Calls(g, h, handler_type) ==
    LET c == handlers[h]
        o == HandlerStep(h, handler_type)
    IN (IF c.cls = handler_type
        THEN <<[g |-> g, h |-> h, fn |-> "check", args |-> "parsed_update"]>>
        ELSE <<>>)
       \o (IF o \in {"skip", "nomatch", "checkerror"}
           THEN <<>>
           ELSE <<[g |-> g, h |-> h, fn |-> "callback", args |-> Args(c, handler_type)]>>)

RECURSIVE IterGroup(_, _, _)
\* the inner loop of handle_update over group.copy(), the handlers `rem` still to
\* come: every run it can take, as [ran, checked, offered, logged, end] (the
\* handlers whose callback ran, the ones whose check() or callback was called,
\* the ones the loop came to, the ones whose exception was logged)
IterGroup(g, rem, handler_type) ==
    IF rem = {}
    THEN {[ran |-> <<>>, checked |-> <<>>, offered |-> <<>>, logged |-> <<>>,
           calls |-> <<>>, end |-> "exhausted"]}
    ELSE UNION {
        LET o == HandlerStep(h, handler_type)
            me == <<[g |-> g, h |-> h]>>
        IN CASE o \in {"return", "error"} ->
                    {[ran |-> me, checked |-> me, offered |-> me,
                      logged |-> IF o = "error" THEN me ELSE <<>>,
                      calls |-> Calls(g, h, handler_type), end |-> "break"]}
             [] o = "StopPropagation" ->
                    {[ran |-> me, checked |-> me, offered |-> me, logged |-> <<>>,
                      calls |-> Calls(g, h, handler_type), end |-> "stop"]}
             [] OTHER ->
                    {[ran |-> (IF o \in {"skip", "nomatch", "checkerror"}
                               THEN <<>> ELSE me) \o r.ran,
                      checked |-> (IF o = "skip" THEN <<>> ELSE me) \o r.checked,
                      offered |-> me \o r.offered,
                      logged |-> (IF o = "checkerror" THEN me ELSE <<>>) \o r.logged,
                      calls |-> Calls(g, h, handler_type) \o r.calls,
                      end |-> r.end] : r \in IterGroup(g, rem \ {h}, handler_type)}
        : h \in rem}

RECURSIVE IterGroups(_, _, _)
\* the outer loop of handle_update from position i of self.groups.items()
IterGroups(gs, i, handler_type) ==
    IF i > Len(gs)
    THEN {[ran |-> <<>>, checked |-> <<>>, offered |-> <<>>, logged |-> <<>>,
           calls |-> <<>>, visited |-> <<>>, out |-> "handled"]}
    ELSE UNION {
        IF r.end = "stop"
        THEN {[ran |-> r.ran, checked |-> r.checked, offered |-> r.offered,
               logged |-> r.logged, calls |-> r.calls, visited |-> <<gs[i].id>>,
               out |-> "StopPropagation"]}
        ELSE {[ran |-> r.ran \o s.ran,
               checked |-> r.checked \o s.checked,
               offered |-> r.offered \o s.offered,
               logged |-> r.logged \o s.logged,
               calls |-> r.calls \o s.calls,
               visited |-> <<gs[i].id>> \o s.visited,
               out |-> s.out] : s \in IterGroups(gs, i + 1, handler_type)}
        : r \in IterGroup(gs[i].id, gs[i].hs, handler_type)}

\* handle_update: every run it can take over the current groups
handle_update(handler_type) == IterGroups(groups, 1, handler_type)

\* Dispatcher.remove_middleware: list.remove raises ValueError for a middleware
\* that is not registered
remove_middleware(m) ==
    /\ m \in Range(middlewares)
    /\ middlewares' = SelectSeq(middlewares, LAMBDA x : x # m)
    /\ UNCHANGED <<configVars, objectVars, mediaVars, peerVars, lockVars, downloadVars,
                   storageVars, watchdogVars, registryVars, cacheVars, updatesVars,
                   mwcalls,
                   middlewares_handlers, run_middlewares, started_with, updates_queue,
                   tasks, handler_worker_tasks, stop_pc, upd, starts, stops>>

\* __prepare_middlewares without reversed()
PrepareMiddlewaresForward(ms) == ms

\* __prepare_middlewares: reversed(self.middlewares)
PrepareMiddlewares(ms) == Reverse(ms)

RECURSIVE ComposeChain(_, _, _)
\* the loop of handle_update_with_middlewares: each middleware of
\* __middlewares_handlers wraps the chain built so far (chain[1] is outermost)
ComposeChain(mh, i, chain) ==
    IF i > Len(mh) THEN chain ELSE ComposeChain(mh, i + 1, <<mh[i]>> \o chain)

RECURSIVE RunChain(_, _)
\* calling the composed chain: the middlewares entered, and whether the innermost
\* call_next (the handler dispatch) is reached
RunChain(chain, i) ==
    IF i > Len(chain) THEN [mws |-> <<>>, reached |-> TRUE]
    ELSE IF mwcalls[chain[i]]
         THEN LET r == RunChain(chain, i + 1)
              IN [mws |-> <<chain[i]>> \o r.mws, reached |-> r.reached]
         ELSE [mws |-> <<chain[i]>>, reached |-> FALSE]

\* what is recorded of one dispatch: the handlers run and offered, the groups
\* visited, the middlewares entered, and the registry the dispatch iterated
NoLog == [ran |-> <<>>, checked |-> <<>>, offered |-> <<>>, logged |-> <<>>,
          calls |-> <<>>,
          visited |-> <<>>, mws |-> <<>>,
          groups |-> <<>>, cfg |-> <<>>, chain |-> FALSE, started_with |-> <<>>,
          registered |-> <<>>, stopped |-> 0]

NoHandler == [cls |-> "none", filt |-> "none", cb |-> "none"]

\* the handlers some group holds
Registered(gs) == UNION {gs[i].hs : i \in 1..Len(gs)}

\* ------------------------------------------------------------------ handle_update,
\* await by await.  The frame of a running handle_update call: the iterator over
\* self.groups.items() (the keys of the OrderedDict object it iterates, the
\* position of the key it returns next, 0 when there is none, whether that
\* object is still the one self.groups is bound to and whether a key was
\* inserted into it since the iterator was made), the group being iterated, what
\* is left of group.copy(), and the handler whose check() or callback is awaited
NoDispatch ==
    [pc |-> "idle", handler_type |-> "NoneType", keys |-> <<>>, cur |-> 0,
     same |-> FALSE, mutated |-> FALSE, g |-> -1, rem |-> {}, h |-> "none",
     cfg |-> [x \in HandlerNames |-> NoHandler], started |-> {}, calls |-> 0,
     copies |-> <<>>, visited |-> <<>>, offered |-> <<>>, ran |-> <<>>, out |-> "none"]

DispatchIdle == disp = NoDispatch

Dispatching(d) == d.pc \notin {"idle", "done"}

\* what a call made on self.groups while handle_update is suspended does to the
\* iterator: an insertion into the iterated OrderedDict changes its od_state,
\* an assignment to self.groups leaves the iterated object behind
Touch(d, inserted, rebound) ==
    IF Dispatching(d)
    THEN [d EXCEPT !.mutated = @ \/ (d.same /\ inserted),
                   !.same = @ /\ ~rebound,
                   !.calls = @ + 1]
    ELSE d

\* the set the iterated dict holds for group g: the set object self.groups holds
GroupSet(g) == IF HasGroup(groups, g) THEN groups[GroupIndex(groups, g)].hs ELSE {}

\* next() on the iterator of an OrderedDict view: nothing left ends the loop, a
\* changed od_state raises RuntimeError, else the key at `cur` is returned
NextKey(d) ==
    IF d.cur = 0 THEN "StopIteration"
    ELSE IF d.mutated THEN "RuntimeError"
    ELSE "key"

RECURSIVE Advance(_), AdvanceGroup(_)
\* handle_update from the top of the inner loop up to its next await (pc
\* "await") or its end (pc "done"): every run the iteration order allows.  A
\* handler that is neither of handler_type nor a RawUpdateHandler is passed
\* without an await
Advance(d) ==
    IF d.rem = {} THEN AdvanceGroup(d)
    ELSE UNION {
        LET me == <<[g |-> d.g, h |-> h]>>
            e == [d EXCEPT !.rem = @ \ {h}, !.offered = @ \o me]
        IN IF HandlerOutcome(d.cfg[h], d.handler_type) = "skip"
           THEN Advance(e)
           ELSE {[e EXCEPT !.pc = "await", !.h = h]}
        : h \in d.rem}

\* the outer loop: next() on the iterator, then group.copy()
AdvanceGroup(d) ==
    CASE NextKey(d) = "StopIteration" ->
            {[d EXCEPT !.pc = "done", !.out = "handled", !.rem = {}, !.h = "none"]}
      [] NextKey(d) = "RuntimeError" ->
            {[d EXCEPT !.pc = "done", !.out = "RuntimeError", !.rem = {}, !.h = "none"]}
      [] OTHER ->
            LET g == d.keys[d.cur]
            IN Advance([d EXCEPT !.g = g, !.rem = GroupSet(g), !.cfg = handlers,
                                 !.h = "none",
                                 !.cur = IF d.cur < Len(d.keys) THEN d.cur + 1 ELSE 0,
                                 !.copies = @ \o <<[g |-> g, hs |-> GroupSet(g)]>>,
                                 !.visited = @ \o <<g>>])

\* Dispatcher.handle_update is called for an update whose parser gave
\* handler_type: it runs to its first await
handle_update_call(type) ==
    /\ ~Dispatching(disp)
    /\ disp' \in AdvanceGroup([NoDispatch EXCEPT
                                  !.pc = "loop",
                                  !.handler_type = update_parsers(type),
                                  !.keys = [i \in 1..Len(groups) |-> groups[i].id],
                                  !.cur = IF groups = <<>> THEN 0 ELSE 1,
                                  !.same = TRUE,
                                  !.started = {groups[i].id : i \in 1..Len(groups)}])
    /\ UNCHANGED <<configVars, objectVars, mediaVars, peerVars, lockVars, downloadVars,
                   storageVars, watchdogVars, middlewareVars, cacheVars, updatesVars,
                   handlers, groups, updates_queue, tasks, handler_worker_tasks,
                   stop_pc, upd, starts, stops>>

\* the awaited check() or callback of handler h returns or raises, and
\* handle_update runs on to its next await
handle_update_resume ==
    /\ disp.pc = "await"
    /\ LET o == HandlerOutcome(disp.cfg[disp.h], disp.handler_type)
           me == <<[g |-> disp.g, h |-> disp.h]>>
           d == [disp EXCEPT !.pc = "loop",
                             !.ran = IF o \in {"nomatch", "checkerror"} THEN @ ELSE @ \o me]
       IN disp' \in CASE o \in {"return", "error"} -> AdvanceGroup(d)
                      [] o = "StopPropagation" ->
                            {[d EXCEPT !.pc = "done", !.out = "StopPropagation",
                                       !.rem = {}, !.h = "none"]}
                      [] OTHER -> Advance(d)
    /\ UNCHANGED <<configVars, objectVars, mediaVars, peerVars, lockVars, downloadVars,
                   storageVars, watchdogVars, middlewareVars, cacheVars, updatesVars,
                   handlers, groups, updates_queue, tasks, handler_worker_tasks,
                   stop_pc, upd, starts, stops>>


\* Handler.__init__ followed by Dispatcher.add_handler
add_handler(h, g, cfg) ==
    /\ handlers[h] = NoHandler
    /\ handlers' = [handlers EXCEPT ![h] = cfg]
    /\ groups' = GroupsAfterAdd(groups, h, g)
    /\ disp' = Touch(disp, ~HasGroup(groups, g), TRUE)
    /\ UNCHANGED <<configVars, objectVars, mediaVars, peerVars, lockVars, downloadVars,
                   storageVars, watchdogVars, middlewareVars, cacheVars, updatesVars,
                   updates_queue,
                   tasks, handler_worker_tasks, stop_pc, upd, starts, stops>>

\* Dispatcher.remove_handler
remove_handler(h, g) ==
    /\ groups' = GroupsAfterRemove(groups, h, g)
    /\ disp' = Touch(disp, ~HasGroup(groups, g), FALSE)
    /\ handlers' = [x \in HandlerNames |->
                       IF x \in Registered(groups') THEN handlers[x] ELSE NoHandler]
    /\ UNCHANGED <<configVars, objectVars, mediaVars, peerVars, lockVars, downloadVars,
                   storageVars, watchdogVars, middlewareVars, cacheVars, updatesVars,
                   updates_queue,
                   tasks, handler_worker_tasks, stop_pc, upd, starts, stops>>

\* Dispatcher.add_middleware
add_middleware(m) ==
    /\ Len(middlewares) < MaxMiddlewares
    /\ m \notin Range(middlewares)
    /\ middlewares' = Append(middlewares, m)
    /\ UNCHANGED <<configVars, objectVars, mediaVars, peerVars, lockVars, downloadVars,
                   storageVars, watchdogVars, registryVars, cacheVars, updatesVars,
                   mwcalls,
                   middlewares_handlers, run_middlewares, started_with, updates_queue,
                   tasks, handler_worker_tasks, stop_pc, upd, starts, stops>>

\* every worker is given the first of the new locks
NewTasksOneLock(n, base) == [i \in 1..n |-> [pc |-> "get", u |-> 0, lock |-> base + 1]]

\* asyncio.create_task(self.handler_worker(lock)), once per new lock
NewTasks(n, base) == [i \in 1..n |-> [pc |-> "get", u |-> 0, lock |-> base + i]]

\* workers are started and stopped whatever no_updates is
UpdatesAlways == TRUE

\* if not self.client.no_updates
UpdatesEnabled == ~no_updates

\* Dispatcher.start
start ==
    /\ starts < MaxStarts
    /\ starts' = starts + 1
    /\ stops' = stops
    /\ middlewares_handlers' = PrepareMiddlewares(middlewares)
    /\ started_with' = middlewares
    /\ run_middlewares' = (middlewares # <<>>)
    /\ IF UpdatesEnabled
       THEN /\ locks_list' = locks_list \o [i \in 1..workers |-> FALSE]
            /\ tasks' = tasks \o NewTasks(workers, Len(locks_list))
            /\ handler_worker_tasks' =
                   handler_worker_tasks \o [i \in 1..workers |-> Len(tasks) + i]
       ELSE UNCHANGED <<locks_list, tasks, handler_worker_tasks>>
    /\ UNCHANGED <<configVars, objectVars, mediaVars, peerVars, downloadVars, storageVars,
                   watchdogVars, registryVars, cacheVars, updatesVars, middlewares,
                   mwcalls,
                   updates_queue, stop_pc, upd>>

\* one sentinel too few
SentinelsShort(n) == [i \in 1..(n - 1) |-> 0]

\* the sentinels stop() puts on the queue
Sentinels(n) == [i \in 1..n |-> 0]

\* Dispatcher.stop up to its first await: one None per worker is enqueued
stop_begin ==
    /\ stop_pc = "idle"
    /\ stops < MaxStarts
    /\ stops' = stops + 1
    /\ IF UpdatesEnabled
       THEN /\ updates_queue' = updates_queue \o Sentinels(workers)
            /\ stop_pc' = "await"
            /\ upd' = [u \in DOMAIN upd |->
                          [upd[u] EXCEPT !.before_stop = (upd[u].status # "done")]]
       ELSE UNCHANGED <<updates_queue, stop_pc, upd>>
    /\ UNCHANGED <<configVars, objectVars, mediaVars, peerVars, lockVars, downloadVars,
                   storageVars, watchdogVars, registryVars, middlewareVars, cacheVars,
                   updatesVars,
                   tasks, handler_worker_tasks, starts>>

\* stop() leaves the handlers registered
GroupsKept(gs) == gs

\* self.groups.clear()
Cleared(gs) == <<>>

\* Dispatcher.stop after every task of handler_worker_tasks has been awaited
stop_return ==
    /\ stop_pc = "await"
    /\ \A i \in 1..Len(handler_worker_tasks) : tasks[handler_worker_tasks[i]].pc = "done"
    /\ handler_worker_tasks' = <<>>
    /\ groups' = Cleared(groups)
    /\ disp' = Touch(disp, groups # <<>>, FALSE)
    /\ handlers' = [x \in HandlerNames |->
                       IF x \in Registered(groups') THEN handlers[x] ELSE NoHandler]
    /\ stop_pc' = "idle"
    /\ UNCHANGED <<configVars, objectVars, mediaVars, peerVars, lockVars, downloadVars,
                   storageVars, watchdogVars, middlewareVars, cacheVars, updatesVars,
                   updates_queue,
                   tasks, upd, starts, stops>>

\* handle_updates, first statement: self.last_update_time = datetime.now()
ResetIdle ==
    /\ last_update_time' = now
    /\ handled' = now
    /\ UNCHANGED <<now, updates_watchdog_event, watchdog, wd_ticks>>

\* asyncio.Queue(): the default maxsize, 0, which stands for no limit
maxsize == 0

\* Queue.full(): put_nowait raises QueueFull on a full queue
full(q) == maxsize > 0 /\ Len(q) >= maxsize

\* Client.handle_updates on an UpdateShort: the update is put on the queue
put_update(type, parse) ==
    /\ Len(upd) < MaxUpdates
    /\ ~full(updates_queue)
    /\ upd' = Append(upd, [type |-> type, parse |-> parse, status |-> "queued",
                           out |-> "none", before_stop |-> FALSE, gets |-> 0,
                           runs |-> 0, dicts |-> 0, log |-> NoLog])
    /\ updates_queue' = Append(updates_queue, Len(upd) + 1)
    /\ ResetIdle
    /\ UNCHANGED <<configVars, objectVars, mediaVars, peerVars, lockVars, downloadVars,
                   storageVars, registryVars, middlewareVars, cacheVars, updatesVars,
                   tasks, handler_worker_tasks, stop_pc, starts, stops>>

\* the item behind the one returned is removed with it
DequeuedTwo(q) == SubSeq(q, 3, Len(q))

\* what updates_queue.get() leaves on the queue
Dequeued(q) == Tail(q)

\* handler_worker: updates_queue.get(), the sentinel check, the parser call and
\* the entry of `async with lock`
worker_get(t) ==
    /\ tasks[t].pc = "get"
    /\ updates_queue # <<>>
    /\ LET u == Head(updates_queue)
       IN /\ updates_queue' = Dequeued(updates_queue)
          /\ IF u = 0
             THEN /\ tasks' = [tasks EXCEPT ![t].pc = "done"]
                  /\ UNCHANGED <<upd, locks_list>>
             ELSE IF update_parsers(upd[u].type) # "NoneType" /\ upd[u].parse = "raise"
             THEN /\ tasks' = tasks
                  /\ upd' = [upd EXCEPT ![u].status = "done", ![u].out = "parser error",
                                        ![u].gets = @ + 1]
                  /\ UNCHANGED locks_list
             ELSE /\ ~locks_list[tasks[t].lock]
                  /\ locks_list' = [locks_list EXCEPT ![tasks[t].lock] = TRUE]
                  /\ tasks' = [tasks EXCEPT ![t].pc = "handle", ![t].u = u]
                  /\ upd' = [upd EXCEPT ![u].status = "taken", ![u].gets = @ + 1]
    /\ UNCHANGED <<configVars, objectVars, mediaVars, peerVars, downloadVars, storageVars,
                   watchdogVars, registryVars, middlewareVars, cacheVars, updatesVars,
                   handler_worker_tasks, stop_pc, starts, stops>>

\* the truth value of parsed_update
Parsed(u) == update_parsers(upd[u].type) # "NoneType" /\ upd[u].parse = "ok"

\* the stop() calls that have returned
StopsReturned == IF stop_pc = "await" THEN stops - 1 ELSE stops

\* the chain is entered whatever the parser returned
RunMiddlewaresUnparsed(u) == run_middlewares

\* bool(parsed_update) and self.__run_middlewares
RunMiddlewares(u) == Parsed(u) /\ run_middlewares

\* handler_worker: the body of `async with lock` and its exit
worker_handle(t) ==
    /\ tasks[t].pc = "handle"
    /\ LET u == tasks[t].u
           handler_type == update_parsers(upd[u].type)
           chain == IF RunMiddlewares(u)
                    THEN ComposeChain(middlewares_handlers, 1, <<>>)
                    ELSE <<>>
           c == RunChain(chain, 1)
       IN /\ IF c.reached
             THEN \E r \in handle_update(handler_type) :
                     upd' = [upd EXCEPT ![u].status = "done", ![u].out = r.out,
                                        ![u].runs = @ + 1,
                                        ![u].log = [ran |-> r.ran, checked |-> r.checked,
                                                    offered |-> r.offered,
                                                    logged |-> r.logged,
                                                    calls |-> r.calls,
                                                    visited |-> r.visited, mws |-> c.mws,
                                                    groups |-> groups, cfg |-> handlers,
                                                    chain |-> RunMiddlewares(u),
                                                    started_with |-> started_with,
                                                    registered |-> middlewares,
                                                    stopped |-> StopsReturned]]
             ELSE upd' = [upd EXCEPT ![u].status = "done", ![u].out = "blocked",
                                     ![u].log = [NoLog EXCEPT !.mws = c.mws,
                                                              !.chain = TRUE,
                                                              !.started_with = started_with,
                                                              !.registered = middlewares,
                                                              !.stopped = StopsReturned]]
          /\ tasks' = [tasks EXCEPT ![t].pc = "get", ![t].u = 0]
          /\ locks_list' = [locks_list EXCEPT ![tasks[t].lock] = FALSE]
    /\ UNCHANGED <<configVars, objectVars, mediaVars, peerVars, downloadVars, storageVars,
                   watchdogVars, registryVars, middlewareVars, cacheVars, updatesVars,
                   updates_queue, handler_worker_tasks, stop_pc, starts, stops>>

\* ------------------------------------------------------------------ Cache
\* one entry too few is evicted
EvictCountHalf(c) == c \div 2

\* range(self.capacity // 2 + 1)
EvictCount(c) == c \div 2 + 1

RECURSIVE Evict(_, _)
\* del self.store[next(iter(self.store))], n times
Evict(st, n) == IF n = 0 THEN st ELSE Evict(Tail(st), n - 1)

\* the store after an assignment that leaves an existing key at its place
StoreAfterSetInPlace(st, c, k, v) ==
    LET added == IF \E i \in 1..Len(st) : st[i].key = k
                 THEN [i \in 1..Len(st) |->
                          IF st[i].key = k THEN [key |-> k, value |-> v] ELSE st[i]]
                 ELSE Append(st, [key |-> k, value |-> v])
    IN IF Len(added) > c THEN Evict(added, EvictCount(c)) ELSE added

\* the store after Cache.__setitem__(key, value)
StoreAfterSet(st, c, k, v) ==
    LET added == Append(SelectSeq(st, LAMBDA e : e.key # k), [key |-> k, value |-> v])
    IN IF Len(added) > c THEN Evict(added, EvictCount(c)) ELSE added

\* Cache.__setitem__
cache_setitem(k, v) ==
    /\ store' = StoreAfterSet(store, capacity, k, v)
    /\ evicted' = Len(SelectSeq(store, LAMBDA e : e.key # k)) + 1 - Len(store')
    /\ found' = \E i \in 1..Len(store) : store[i].key = k
    /\ UNCHANGED <<configVars, objectVars, mediaVars, peerVars, lockVars, downloadVars,
                   storageVars, watchdogVars, registryVars, middlewareVars, updatesVars,
                   capacity, got,
                   updates_queue, tasks, handler_worker_tasks, stop_pc, upd, starts, stops>>

\* Cache.__getitem__: self.store.get(key, None)
cache_getitem(k) ==
    /\ got' = IF \E i \in 1..Len(store) : store[i].key = k
              THEN store[CHOOSE i \in 1..Len(store) : store[i].key = k].value
              ELSE "None"
    /\ UNCHANGED <<configVars, objectVars, mediaVars, peerVars, lockVars, downloadVars,
                   storageVars, watchdogVars, registryVars, middlewareVars, updatesVars,
                   capacity, store,
                   evicted, found, updates_queue, tasks, handler_worker_tasks, stop_pc, upd,
                   starts, stops>>

\* ------------------------------------------------------------------ handle_updates
\* utils.MAX_CHANNEL_ID; the library's value, -1000000000000, is scaled to fit
MAX_CHANNEL_ID == -1000000

\* utils.get_channel_id
get_channel_id(c) == MAX_CHANNEL_ID - c

Channels == 1..MaxChannels

\* the users and chats a channel difference returns
DiffUsers == {2}

DiffChats == {MaxChannels + 1}

\* a raw peer: its class and the attributes update_storage_peers reads; an
\* attribute the class does not have is FALSE, "None", <<>> or -1
RawPeer(cls, id, min, access_hash, username, usernames, bot, broadcast) ==
    [cls |-> cls, id |-> id, min |-> min, access_hash |-> access_hash,
     username |-> username, usernames |-> usernames, phone |-> "None",
     bot |-> bot, broadcast |-> broadcast]

\* str.lower() on the usernames that occur
Lower(name) ==
    CASE name = "Abc" -> "abc"
      [] name = "Xyz" -> "xyz"
      [] OTHER -> name

\* peer.username.lower() if peer.username else
\* peer.usernames[0].username.lower() if peer.usernames else None
UsernameOf(peer) ==
    IF peer.username \notin {"None", ""} THEN Lower(peer.username)
    ELSE IF peer.usernames # <<>> THEN Lower(peer.usernames[1])
    ELSE "None"

\* the classes for which the loop reaches parsed_peers.append
StoredClasses == {"User", "Channel", "ChannelForbidden", "Chat", "ChatForbidden"}

\* the tuple (peer_id, access_hash, peer_type, username, phone_number) of a peer
ParsedPeer(peer) ==
    CASE peer.cls = "User" ->
             [peer_id |-> peer.id, access_hash |-> peer.access_hash,
              peer_type |-> IF peer.bot THEN "bot" ELSE "user",
              username |-> UsernameOf(peer), phone_number |-> peer.phone]
      [] peer.cls = "Channel" ->
             [peer_id |-> get_channel_id(peer.id), access_hash |-> peer.access_hash,
              peer_type |-> IF peer.broadcast THEN "channel" ELSE "supergroup",
              username |-> UsernameOf(peer), phone_number |-> "None"]
      [] peer.cls = "ChannelForbidden" ->
             [peer_id |-> get_channel_id(peer.id), access_hash |-> peer.access_hash,
              peer_type |-> IF peer.broadcast THEN "channel" ELSE "supergroup",
              username |-> "None", phone_number |-> "None"]
      [] OTHER ->
             [peer_id |-> 0 - peer.id, access_hash |-> 0, peer_type |-> "group",
              username |-> "None", phone_number |-> "None"]

RECURSIVE ParsedPeersAll(_)
\* parsed_peers when a min peer is parsed like any other
ParsedPeersAll(peers) ==
    IF peers = <<>> THEN <<>>
    ELSE (IF Head(peers).cls \in StoredClasses THEN <<ParsedPeer(Head(peers))>> ELSE <<>>)
             \o ParsedPeersAll(Tail(peers))

RECURSIVE ParsedPeers(_)
\* update_storage_peers, the list it gives to storage.update_peers: a min peer
\* and a peer of another class are passed over
ParsedPeers(peers) ==
    IF peers = <<>> THEN <<>>
    ELSE (IF ~Head(peers).min /\ Head(peers).cls \in StoredClasses
          THEN <<ParsedPeer(Head(peers))>> ELSE <<>>) \o ParsedPeers(Tail(peers))

\* update_storage_peers, its return value: whether a peer carries the min flag
update_storage_peers(peers) == \E i \in 1..Len(peers) : peers[i].min

\* one update_storage_peers call: what it stores and what it returns
StoragePeersCall(peers) ==
    [peers |-> ParsedPeers(peers), is_min |-> update_storage_peers(peers)]

\* is_min with the chats left out
is_min_users_only(users, chats) == update_storage_peers(users)

\* is_min = any((update_storage_peers(users), update_storage_peers(chats)))
is_min_of(users, chats) == update_storage_peers(users) \/ update_storage_peers(chats)

\* bool(ignore_channel_updates_except) and get_channel_id(channel_id) not in it
Ignored(channel) ==
    /\ ignore_channel_updates_except # {}
    /\ get_channel_id(channel) \notin ignore_channel_updates_except

PeerIds(peers) == {peers[i].id : i \in 1..Len(peers)}

\* self.dispatcher.updates_queue.put_nowait((update, users, chats))
PutBatchUpdate(i) ==
    /\ upd' = Append(upd, [type |-> hu.batch.updates[i].type, parse |-> "ok",
                           status |-> "queued", out |-> "none", before_stop |-> FALSE,
                           gets |-> 0, runs |-> 0, dicts |-> 1, log |-> NoLog])
    /\ ~full(updates_queue)
    /\ updates_queue' = Append(updates_queue, Len(upd) + 1)

\* handle_updates on an Updates or UpdatesCombined batch, up to the loop
handle_updates_begin(batch) ==
    /\ hu.pc = "idle"
    /\ hu' = [pc |-> "loop", batch |-> batch, i |-> 1,
              is_min |-> is_min_of(batch.users, batch.chats),
              users |-> PeerIds(batch.users), chats |-> PeerIds(batch.chats)]
    /\ peers_written' = <<StoragePeersCall(batch.users), StoragePeersCall(batch.chats)>>
    /\ ResetIdle
    /\ UNCHANGED <<configVars, objectVars, mediaVars, lockVars, downloadVars, storageVars,
                   registryVars, middlewareVars, cacheVars,
                   ignore_channel_updates_except, events, updates_queue, tasks,
                   handler_worker_tasks, stop_pc, upd, starts, stops>>

\* one pass of the loop over updates.updates, up to its await or its put_nowait;
\* `resolved` is whether resolve_peer returns
handle_updates_loop(resolved) ==
    /\ hu.pc = "loop"
    /\ IF hu.i > Len(hu.batch.updates)
       THEN /\ hu' = [hu EXCEPT !.pc = "done"]
            /\ UNCHANGED <<events, upd, updates_queue>>
       ELSE LET update == hu.batch.updates[hu.i]
            IN IF update.type = "UpdateNewChannelMessage" /\ hu.is_min /\ Ignored(update.channel)
               THEN /\ hu' = [hu EXCEPT !.i = @ + 1]
                    /\ UNCHANGED <<events, upd, updates_queue>>
               ELSE IF update.type = "UpdateNewChannelMessage" /\ hu.is_min /\ ~update.empty
               THEN IF resolved
                    THEN /\ hu' = [hu EXCEPT !.pc = "invoke"]
                         /\ events' = Append(events, [k |-> "GetChannelDifference", i |-> hu.i,
                                                      users |-> {}, chats |-> {}])
                         /\ UNCHANGED <<upd, updates_queue>>
                    ELSE /\ hu' = [hu EXCEPT !.pc = "failed"]
                         /\ UNCHANGED <<events, upd, updates_queue>>
               ELSE /\ hu' = [hu EXCEPT !.i = @ + 1]
                    /\ events' = Append(events, [k |-> "put", i |-> hu.i,
                                                 users |-> hu.users, chats |-> hu.chats])
                    /\ PutBatchUpdate(hu.i)
    /\ UNCHANGED <<configVars, objectVars, mediaVars, peerVars, lockVars, downloadVars,
                   storageVars, watchdogVars, registryVars, middlewareVars, cacheVars,
                   ignore_channel_updates_except, tasks, handler_worker_tasks, stop_pc,
                   starts, stops>>

DiffResults == {"ChannelDifference", "ChannelDifferenceEmpty", "ChannelPrivate", "error"}

\* the answer is merged whatever it is
MergedAny(dict, result, more) == dict \cup more

\* the users (or chats) after the answer of GetChannelDifference
Merged(dict, result, more) == IF result = "ChannelDifference" THEN dict \cup more ELSE dict

\* the answer of GetChannelDifference arrives: merge, then put_nowait
handle_updates_invoked(result) ==
    /\ hu.pc = "invoke"
    /\ IF result = "error"
       THEN /\ hu' = [hu EXCEPT !.pc = "failed"]
            /\ events' = Append(events, [k |-> result, i |-> hu.i, users |-> {}, chats |-> {}])
            /\ UNCHANGED <<upd, updates_queue>>
       ELSE LET users == Merged(hu.users, result, DiffUsers)
                chats == Merged(hu.chats, result, DiffChats)
            IN /\ hu' = [hu EXCEPT !.pc = "loop", !.i = @ + 1, !.users = users,
                                   !.chats = chats]
               /\ events' = events \o <<[k |-> result, i |-> hu.i, users |-> {}, chats |-> {}],
                                        [k |-> "put", i |-> hu.i, users |-> users,
                                         chats |-> chats]>>
               /\ PutBatchUpdate(hu.i)
    /\ UNCHANGED <<configVars, objectVars, mediaVars, peerVars, lockVars, downloadVars,
                   storageVars, watchdogVars, registryVars, middlewareVars, cacheVars,
                   ignore_channel_updates_except, tasks, handler_worker_tasks, stop_pc,
                   starts, stops>>

\* ------------------------------------------------------------------ watchdog
\* Client.UPDATES_WATCHDOG_INTERVAL = 5 * 60 seconds, in minutes
UPDATES_WATCHDOG_INTERVAL == 5

\* the idle test with >= for >
IdleCheckAtLeast(t, last) == t - last >= UPDATES_WATCHDOG_INTERVAL

\* datetime.now() - self.last_update_time > timedelta(seconds=UPDATES_WATCHDOG_INTERVAL)
IdleCheck(t, last) == t - last > UPDATES_WATCHDOG_INTERVAL

\* one minute passes
time_passes ==
    /\ now < MaxTime
    /\ now' = now + 1
    /\ UNCHANGED <<configVars, objectVars, mediaVars, peerVars, lockVars, downloadVars,
                   storageVars, registryVars, middlewareVars, cacheVars, updatesVars,
                   last_update_time, handled, updates_watchdog_event, watchdog, wd_ticks,
                   updates_queue, tasks, handler_worker_tasks, stop_pc, upd, starts, stops>>

\* the event that ends the watchdog is set
set_watchdog_event ==
    /\ ~updates_watchdog_event
    /\ updates_watchdog_event' = TRUE
    /\ UNCHANGED <<configVars, objectVars, mediaVars, peerVars, lockVars, downloadVars,
                   storageVars, registryVars, middlewareVars, cacheVars, updatesVars,
                   now, last_update_time, handled, watchdog, wd_ticks,
                   updates_queue, tasks, handler_worker_tasks, stop_pc, upd, starts, stops>>

\* the watchdog moves to position pc; a new wait_for ends INTERVAL from now
WatchdogAt(pc) ==
    /\ watchdog' = [pc |-> pc, deadline |-> now + UPDATES_WATCHDOG_INTERVAL]
    /\ UNCHANGED <<configVars, objectVars, mediaVars, peerVars, lockVars, downloadVars,
                   storageVars, registryVars, middlewareVars, cacheVars, updatesVars,
                   now, last_update_time, handled, updates_watchdog_event,
                   updates_queue, tasks, handler_worker_tasks, stop_pc, upd, starts, stops>>

\* updates_watchdog: the task starts and enters its first wait_for
watchdog_begin ==
    /\ watchdog.pc = "off"
    /\ wd_ticks' = wd_ticks
    /\ WatchdogAt("wait")

\* updates_watchdog: the event was set, wait_for returns, the loop breaks
watchdog_break ==
    /\ watchdog.pc = "wait"
    /\ updates_watchdog_event
    /\ wd_ticks' = wd_ticks
    /\ WatchdogAt("exited")

\* updates_watchdog: wait_for times out (at its deadline or later) and the idle
\* time is tested; GetState is invoked or the next wait_for starts
watchdog_timeout ==
    /\ watchdog.pc = "wait"
    /\ ~updates_watchdog_event
    /\ now >= watchdog.deadline
    /\ LET idle == IdleCheck(now, last_update_time)
       IN /\ wd_ticks' = Append(wd_ticks, [t |-> now, handled |-> handled,
                                            invoked |-> idle])
          /\ WatchdogAt(IF idle THEN "invoke" ELSE "wait")

\* updates_watchdog: await self.invoke(GetState()) returns or raises
watchdog_invoked(ok) ==
    /\ watchdog.pc = "invoke"
    /\ wd_ticks' = wd_ticks
    /\ WatchdogAt(IF ok THEN "wait" ELSE "failed")

\* handle_updates on UpdatesTooLong or on a packet of no listed kind
handle_updates_other(kind) ==
    /\ kind \in {"UpdatesTooLong", "other"}
    /\ ResetIdle
    /\ UNCHANGED <<configVars, objectVars, mediaVars, peerVars, lockVars, downloadVars,
                   storageVars, registryVars, middlewareVars, cacheVars, updatesVars,
                   updates_queue, tasks, handler_worker_tasks, stop_pc, upd, starts, stops>>

\* handle_updates on UpdateShortMessage or UpdateShortChatMessage: GetDifference
\* is invoked and the first message or other update of the answer is queued
handle_updates_short_message(diff) ==
    /\ ResetIdle
    /\ IF diff \in {"new_messages", "other_updates"}
       THEN /\ Len(upd) < MaxUpdates
            /\ upd' = Append(upd, [type |-> IF diff = "new_messages"
                                            THEN "UpdateNewMessage" ELSE "other",
                                   parse |-> "ok", status |-> "queued", out |-> "none",
                                   before_stop |-> FALSE, gets |-> 0, runs |-> 0,
                                   dicts |-> IF diff = "new_messages" THEN 1 ELSE 0,
                                   log |-> NoLog])
            /\ ~full(updates_queue)
            /\ updates_queue' = Append(updates_queue, Len(upd) + 1)
       ELSE UNCHANGED <<upd, updates_queue>>
    /\ UNCHANGED <<configVars, objectVars, mediaVars, peerVars, lockVars, downloadVars,
                   storageVars, registryVars, middlewareVars, cacheVars, updatesVars,
                   tasks, handler_worker_tasks, stop_pc, starts, stops>>

\* ------------------------------------------------------------------ get_file
Downloads == 1..MaxDownloads

\* chunk_size = 1024 * 1024 bytes, in units of 256 KiB
CHUNK_SIZE == 4

Min(a, b) == IF a < b THEN a ELSE b

\* total = abs(limit) or (1 << 31) - 1
Total(limit) == IF limit # 0 THEN limit ELSE 2147483647

\* s[a:b] of a Python bytes object, 0 <= a
Slice(s, a, b) == SubSeq(s, Min(a, Len(s)) + 1, Min(b, Len(s)))

\* the byte at position i (from 1) of the plaintext of a file
Unit(seed, i) == ((i + seed) \div 2) % 2

\* the plaintext that the server holds for [offset, offset + chunk_size)
FileChunk(file, offset) ==
    [i \in 1..Min(CHUNK_SIZE, IF file.len > offset THEN file.len - offset ELSE 0) |->
        Unit(file.seed, offset + i)]

\* aes.ctr256_decrypt with the counter taken from the offset: the XOR of the
\* chunk with the key stream from that offset on (encryption is the same XOR)
ctr256_decrypt(chunk, offset) ==
    [i \in 1..Len(chunk) |-> (chunk[i] + ((offset + i) % 2)) % 2]

\* what the CDN answers for an offset: the encrypted chunk, byte k inverted
\* when the CDN is not honest (k = 0: as stored)
CdnBytes(file, offset, k) ==
    LET enc == ctr256_decrypt(FileChunk(file, offset), offset)
    IN [i \in 1..Len(enc) |-> IF i = k THEN 1 - enc[i] ELSE enc[i]]

\* sha256(...).digest(), free of collisions
sha256(bytes) == <<"sha256", bytes>>

\* the part sizes the origin hashes a file in: parts of `limit` bytes from the
\* start of the file, the last part of the file as long as what is left
HashLimits == {2, 4}

\* what the origin answers to upload.GetCdnFileHashes for an offset
FileHashes(file, offset, limit) ==
    LET chunk == FileChunk(file, offset)
        n == (Len(chunk) + limit - 1) \div limit
    IN [j \in 1..n |->
           [offset |-> offset + (j - 1) * limit,
            limit |-> Min(limit, Len(chunk) - (j - 1) * limit),
            hash |-> sha256(Slice(chunk, (j - 1) * limit, j * limit))]]

\* the verification loop of get_file: no CDNFileHashMismatch is raised
HashesMatch(hashes, decrypted_chunk) ==
    \A i \in 0..(Len(hashes) - 1) :
        LET h == hashes[i + 1]
        IN h.hash = sha256(Slice(decrypted_chunk, h.limit * i, h.limit * (i + 1)))

NoFile == [dc |-> 0, cdn |-> FALSE, len |-> 0, seed |-> 0]

\* the frame of a get_file generator that was not called yet; `fault` notes
\* that a peer failed (an error answer, a failed start, an inverted byte) or that
\* the consumer ended the download (StopTransmission, close)
NoDownload ==
    [pc |-> "new", file |-> NoFile, limit |-> 0, progress |-> FALSE, remote |-> FALSE,
     offset_bytes |-> 0, current |-> 0, session |-> "none", cdn_session |-> "none",
     exported |-> "none", chunk |-> <<>>, hashes |-> <<>>, reuploads |-> 0,
     exc |-> "none", logged |-> "none", fault |-> FALSE, yielded |-> <<>>,
     calls |-> <<>>, out |-> "none"]

\* exceptions that `except Exception` does not stop on their way to the consumer:
\* StopTransmission is raised again, GeneratorExit is no Exception
Passing == {"none", "StopTransmission", "GeneratorExit"}

\* the frame after exception e reached the handlers of the outer try
OuterExcept(f, e) ==
    [f EXCEPT !.pc = "finally",
              !.exc = IF e \in Passing THEN e ELSE "none",
              !.logged = IF e \in Passing THEN f.logged ELSE e]

\* the semaphore gets two permits back
ReleaseTwo(d, f) ==
    /\ dl' = [dl EXCEPT ![d] = f]
    /\ permits' = permits + 2
    /\ UNCHANGED <<configVars, objectVars, mediaVars, peerVars, lockVars, storageVars,
                   watchdogVars, registryVars, middlewareVars,
                   cacheVars, updatesVars, max_concurrent_transmissions,
                   updates_queue, tasks, handler_worker_tasks, stop_pc, upd, starts, stops>>

\* an exception raised in the body goes to the outer handlers at once
RaiseOuter(f, e) == OuterExcept([f EXCEPT !.fault = @ \/ e # "CDNFileHashMismatch"], e)

\* a file is never taken to be on a remote DC
RemoteDcNever(f) == FALSE

\* the frame after exception e was raised in the body: inside the try of the
\* CDN session its finally runs first
Raise(f, e) ==
    LET g == [f EXCEPT !.fault = @ \/ e # "CDNFileHashMismatch"]
    IN IF g.cdn_session # "none"
       THEN [g EXCEPT !.pc = "cdn_finally", !.exc = e]
       ELSE OuterExcept(g, e)

\* the frame with one more call in its log
Called(f, on, fn, arg) == [f EXCEPT !.calls = Append(@, [on |-> on, fn |-> fn, arg |-> arg])]

\* download d continues with frame f; the semaphore is left as it is
Continue(d, f) ==
    /\ dl' = [dl EXCEPT ![d] = f]
    /\ UNCHANGED <<configVars, objectVars, mediaVars, peerVars, lockVars, storageVars,
                   watchdogVars, registryVars, middlewareVars,
                   cacheVars, updatesVars, max_concurrent_transmissions, permits,
                   updates_queue, tasks, handler_worker_tasks, stop_pc, upd, starts, stops>>

\* download d leaves `async with self.get_file_semaphore` with frame f
Release(d, f) ==
    /\ dl' = [dl EXCEPT ![d] = f]
    /\ permits' = permits + 1
    /\ UNCHANGED <<configVars, objectVars, mediaVars, peerVars, lockVars, storageVars,
                   watchdogVars, registryVars, middlewareVars,
                   cacheVars, updatesVars, max_concurrent_transmissions,
                   updates_queue, tasks, handler_worker_tasks, stop_pc, upd, starts, stops>>

RemoteDc(f) == f.file.dc # storage.dc_id

\* get_file is called and its generator is asked for the first chunk
get_file(d, file, limit, progress) ==
    /\ dl[d].pc = "new"
    /\ Continue(d, [NoDownload EXCEPT !.pc = "acquire", !.file = file, !.limit = limit,
                                      !.progress = progress])

\* async with self.get_file_semaphore: a permit is taken; the body runs up to its
\* first await, of Auth(...).create() for a remote DC and of the stored key for
\* the home DC
get_file_acquire(d) ==
    /\ dl[d].pc = "acquire"
    /\ permits > 0
    /\ dl' = [dl EXCEPT ![d].pc = "auth", ![d].remote = RemoteDc(dl[d])]
    /\ permits' = permits - 1
    /\ UNCHANGED <<configVars, objectVars, mediaVars, peerVars, lockVars, storageVars,
                   watchdogVars, registryVars, middlewareVars,
                   cacheVars, updatesVars, max_concurrent_transmissions,
                   updates_queue, tasks, handler_worker_tasks, stop_pc, upd, starts, stops>>

\* the auth key of the session: a handshake with a remote DC, the stored key for
\* the home DC; then Session(...). A failed handshake leaves the generator
get_file_auth(d, ok) ==
    LET f == dl[d]
    IN /\ f.pc = "auth"
       /\ IF f.remote
          THEN IF ok
               THEN Continue(d, [Called(f, "auth", "create", f.file.dc)
                                    EXCEPT !.pc = "start", !.session = "created"])
               ELSE Release(d, [Called(f, "auth", "create", f.file.dc)
                                    EXCEPT !.pc = "ended", !.out = "AuthError",
                                           !.fault = TRUE])
          ELSE /\ ok
               /\ Continue(d, [f EXCEPT !.pc = "start", !.session = "created"])

\* await session.start()
get_file_session_start(d, ok) ==
    LET f == Called(dl[d], "secondary", "start", dl[d].file.dc)
    IN /\ dl[d].pc = "start"
       /\ IF ok
          THEN Continue(d, [f EXCEPT !.session = "started",
                                     !.pc = IF RemoteDc(f) THEN "export" ELSE "getfile"])
          ELSE Continue(d, Raise(f, "ConnectionError"))

ExportedAuths == {"exported1", "exported2"}

\* await self.invoke(auth.ExportAuthorization(dc_id=dc_id)); the answer is
\* `exported`, "error" for an RPC error
get_file_export(d, exported) ==
    LET f == Called(dl[d], "home", "ExportAuthorization", dl[d].file.dc)
    IN /\ dl[d].pc = "export"
       /\ IF exported # "error"
          THEN Continue(d, [f EXCEPT !.pc = "import", !.exported = exported])
          ELSE Continue(d, Raise(f, "RPCError"))

\* await session.invoke(auth.ImportAuthorization(id=..., bytes=...))
get_file_import(d, ok) ==
    LET f == Called(dl[d], "secondary", "ImportAuthorization", dl[d].exported)
    IN /\ dl[d].pc = "import"
       /\ IF ok
          THEN Continue(d, [f EXCEPT !.pc = "getfile"])
          ELSE Continue(d, Raise(f, "RPCError"))

\* the frame suspended at a yield of `chunk`
Yield(f, chunk, pc) == [f EXCEPT !.pc = pc, !.yielded = Append(@, chunk)]

\* await session.invoke(upload.GetFile(...)), the first one and the ones of the
\* loop; the first answer decides between the plain loop and the CDN
get_file_invoke(d, r) ==
    LET f == Called(dl[d], "secondary", "GetFile", dl[d].offset_bytes)
        chunk == FileChunk(f.file, f.offset_bytes)
    IN /\ dl[d].pc \in {"getfile", "getfile_loop"}
       /\ CASE r = "File" ->
                 /\ ~f.file.cdn
                 /\ Continue(d, Yield([f EXCEPT !.chunk = chunk], chunk, "yield"))
            [] r = "FileCdnRedirect" ->
                 /\ f.file.cdn
                 /\ dl[d].pc = "getfile"
                 /\ Continue(d, [f EXCEPT !.pc = "cdn_auth"])
            [] r = "error" -> Continue(d, Raise(f, "RPCError"))

\* the consumer asks for the next chunk, or closes the generator: the code from
\* the yield to the next await, with the progress callback when one was given
Resumed(f, how, pc_break, pc_loop) ==
    IF how = "close"
    THEN Raise(f, "GeneratorExit")
    ELSE LET g == [f EXCEPT !.current = @ + 1, !.offset_bytes = @ + CHUNK_SIZE]
         IN IF f.progress /\ how = "StopTransmission"
            THEN Raise(g, "StopTransmission")
            ELSE IF Len(f.chunk) < CHUNK_SIZE \/ g.current >= Total(f.limit)
            THEN [g EXCEPT !.pc = pc_break]
            ELSE [g EXCEPT !.pc = pc_loop]

ResumeKinds(f) == {"next", "close"} \cup (IF f.progress THEN {"StopTransmission"} ELSE {})

get_file_resume(d, how) ==
    /\ dl[d].pc = "yield"
    /\ how \in ResumeKinds(dl[d])
    /\ Continue(d, Resumed(dl[d], how, "finally", "getfile_loop"))

\* the DC of the CDN named by a FileCdnRedirect
CDN_DC == 203

\* Auth(self, r.dc_id, ...).create() and Session(..., is_cdn=True)
get_file_cdn_auth(d, ok) ==
    LET f == Called(dl[d], "auth", "create", CDN_DC)
    IN /\ dl[d].pc = "cdn_auth"
       /\ IF ok
          THEN Continue(d, [f EXCEPT !.pc = "cdn_start", !.cdn_session = "created"])
          ELSE Continue(d, Raise(f, "AuthError"))

\* await cdn_session.start()
get_file_cdn_start(d, ok) ==
    LET f == Called(dl[d], "cdn", "start", CDN_DC)
    IN /\ dl[d].pc = "cdn_start"
       /\ IF ok
          THEN Continue(d, [f EXCEPT !.pc = "cdn_get", !.cdn_session = "started"])
          ELSE Continue(d, Raise(f, "ConnectionError"))

\* await cdn_session.invoke(upload.GetCdnFile(...)); k is the byte a dishonest
\* CDN inverted
get_cdn_file(d, r2, k) ==
    LET f == Called(dl[d], "cdn", "GetCdnFile", dl[d].offset_bytes)
    IN /\ dl[d].pc = "cdn_get"
       /\ CASE r2 = "CdnFile" ->
                 /\ k \in 0..Len(FileChunk(f.file, f.offset_bytes))
                 /\ Continue(d, [f EXCEPT !.pc = "hashes", !.fault = @ \/ k # 0,
                                          !.chunk = CdnBytes(f.file, f.offset_bytes, k)])
            [] r2 = "CdnFileReuploadNeeded" ->
                 /\ k = 0
                 /\ f.reuploads < MaxReuploads
                 /\ Continue(d, [f EXCEPT !.pc = "reupload", !.reuploads = @ + 1])
            [] r2 = "error" ->
                 /\ k = 0
                 /\ Continue(d, Raise(f, "RPCError"))

\* await session.invoke(upload.ReuploadCdnFile(...)): continue, or break on
\* VolumeLocNotFound
reupload_cdn_file(d, res) ==
    LET f == Called(dl[d], "secondary", "ReuploadCdnFile", dl[d].offset_bytes)
    IN /\ dl[d].pc = "reupload"
       /\ CASE res = "ok" -> Continue(d, [f EXCEPT !.pc = "cdn_get"])
            [] res = "VolumeLocNotFound" ->
                 Continue(d, [f EXCEPT !.pc = "cdn_finally", !.fault = TRUE])
            [] res = "error" -> Continue(d, Raise(f, "RPCError"))

\* the chunk is decrypted, await session.invoke(upload.GetCdnFileHashes(...)),
\* the hashes are compared and the decrypted chunk is yielded
get_cdn_file_hashes(d, limit) ==
    LET hashes == FileHashes(dl[d].file, dl[d].offset_bytes, limit)
        f == [Called(dl[d], "secondary", "GetCdnFileHashes", dl[d].offset_bytes)
                 EXCEPT !.hashes = IF limit = 0 THEN <<>> ELSE hashes]
        decrypted_chunk == ctr256_decrypt(f.chunk, f.offset_bytes)
    IN /\ dl[d].pc = "hashes"
       /\ IF limit = 0
          THEN Continue(d, Raise(f, "RPCError"))
          ELSE IF HashesMatch(hashes, decrypted_chunk)
          THEN Continue(d, Yield(f, decrypted_chunk, "cdn_yield"))
          ELSE Continue(d, Raise(f, "CDNFileHashMismatch"))

get_file_cdn_resume(d, how) ==
    /\ dl[d].pc = "cdn_yield"
    /\ how \in ResumeKinds(dl[d])
    /\ Continue(d, Resumed(dl[d], how, "cdn_finally", "cdn_get"))

\* finally: await cdn_session.stop(); the exception on its way goes on to the
\* handlers of the outer try
get_file_cdn_stop(d) ==
    LET f == Called(dl[d], "cdn", "stop", CDN_DC)
    IN /\ dl[d].pc = "cdn_finally"
       /\ Continue(d, OuterExcept([f EXCEPT !.cdn_session = "stopped"], f.exc))

\* finally: await session.stop(); the generator ends, or raises what was on
\* its way, and the semaphore is released
get_file_stop(d) ==
    LET f == Called(dl[d], "secondary", "stop", dl[d].file.dc)
    IN /\ dl[d].pc = "finally"
       /\ Release(d, [f EXCEPT !.pc = "ended", !.session = "stopped",
                               !.out = IF f.exc = "none" THEN "end" ELSE f.exc])

RECURSIVE Concat(_)
\* the chunks written one after the other
Concat(chunks) == IF chunks = <<>> THEN <<>> ELSE Head(chunks) \o Concat(Tail(chunks))

\* handle_download on an ended generator: the file with the chunks written to
\* it, None when the generator raised
handle_download(f) ==
    IF f.out = "end" THEN [file |-> Concat(f.yielded)] ELSE [file |-> "None"]

\* Client.__init__: the semaphore; no download is running
DownloadInit ==
    /\ permits = max_concurrent_transmissions
    /\ dl = [d \in Downloads |-> NoDownload]

\* a storage with the home DC and an auth key, as after a login
StorageReady ==
    /\ storage = [api_id |-> 1, dc_id |-> 2, date |-> 0, test_mode |-> "False",
                  auth_key |-> 1, user_id |-> 1, is_bot |-> "False"]
    /\ api_id = 1
    /\ api_hash = "hash"
    /\ test_mode = FALSE
    /\ ls = [pc |-> "idle", n |-> 0, before |-> storage, hs |-> 0]
    /\ handshakes = <<>>

\* ------------------------------------------------------------------ load_session
\* None is "None" in the fields and attributes that hold text or a bool, and -1
\* in the ones that hold a number
\* a field counts as lacking when it is False or 0 as well
SessionEmptyFalsy(st) ==
    \/ st.test_mode \in {"None", "False"} \/ st.auth_key \in {-1, 0}
    \/ st.user_id \in {-1, 0} \/ st.is_bot \in {"None", "False"}

\* session_empty: any of the four fields is None
SessionEmpty(st) ==
    \/ st.test_mode = "None" \/ st.auth_key = -1
    \/ st.user_id = -1 \/ st.is_bot = "None"

\* not x, for a number or None
FalsyInt(x) == x \in {-1, 0}

\* not x, for a text or None
FalsyStr(x) == x \in {"None", ""}

\* a bool as the store holds it
PyBool(b) == IF b THEN "True" ELSE "False"

\* the auth key the n-th handshake of a behaviour creates
NewKey(n) == 100 + n

LoadSession(l, st) ==
    /\ ls' = l
    /\ storage' = st
    /\ UNCHANGED <<configVars, objectVars, mediaVars, peerVars, lockVars, downloadVars,
                   watchdogVars, registryVars, middlewareVars,
                   cacheVars, updatesVars, api_id, api_hash, test_mode,
                   updates_queue, tasks, handler_worker_tasks, stop_pc, upd, starts, stops>>

\* load_session up to the await of Auth(...).create(), or to its end when no
\* handshake is made
load_session ==
    LET l == [pc |-> "idle", n |-> ls.n + 1, before |-> storage,
              hs |-> Len(handshakes)]
    IN /\ ls.pc \in {"idle", "returned", "raised"}
       /\ ls.n < MaxLoads
       /\ handshakes' = handshakes
       /\ IF SessionEmpty(storage)
          THEN IF FalsyInt(api_id) \/ FalsyStr(api_hash)
               THEN LoadSession([l EXCEPT !.pc = "raised"], storage)
               ELSE LoadSession([l EXCEPT !.pc = "handshake"],
                                [storage EXCEPT !.api_id = api_id, !.dc_id = 2,
                                                !.date = 0,
                                                !.test_mode = PyBool(test_mode)])
          ELSE LoadSession([l EXCEPT !.pc = "returned"],
                           IF FalsyInt(storage.api_id)
                           THEN [storage EXCEPT !.api_id = api_id]
                           ELSE storage)

\* Auth(self, dc_id, test_mode).create() returns a key or raises; the key, then
\* user_id and is_bot are stored
load_session_handshake(ok) ==
    /\ ls.pc = "handshake"
    /\ handshakes' = Append(handshakes, [dc |-> storage.dc_id,
                                         test_mode |-> storage.test_mode, ok |-> ok])
    /\ IF ok
       THEN LoadSession([ls EXCEPT !.pc = "returned"],
                        [storage EXCEPT !.auth_key = NewKey(Len(handshakes) + 1),
                                        !.user_id = -1, !.is_bot = "None"])
       ELSE LoadSession([ls EXCEPT !.pc = "raised"], storage)

DispatcherFields ==
    /\ handlers = [h \in HandlerNames |-> NoHandler]
    /\ groups = <<>>
    /\ middlewares = <<>>
    /\ middlewares_handlers = <<>>
    /\ run_middlewares = FALSE
    /\ updates_queue = <<>>
    /\ tasks = <<>>
    /\ handler_worker_tasks = <<>>
    /\ stop_pc = "idle"
    /\ upd = <<>>
    /\ starts = 0
    /\ stops = 0
    /\ started_with = <<>>
    /\ locks_list = <<>>

\* ------------------------------------------------------------------ Object.bind
\* the value of an attribute: None, a Pylogram Object (`ref`) or a list of
\* Objects (`items`)
NoneValue == [kind |-> "None", ref |-> 0, items |-> <<>>]

ObjectValue(j) == [kind |-> "Object", ref |-> j, items |-> <<>>]

ListValue(items) == [kind |-> "list", ref |-> 0, items |-> items]

RECURSIVE Bind(_, _, _), BindDict(_, _, _, _)
\* Object.bind(client) on object o of heap h: the heap it leaves
Bind(h, o, client) == BindDict([h EXCEPT ![o].client = client], o, 1, client)

\* the loop over self.__dict__ from attribute i on: isinstance(o, Object)
\* holds for an Object and for nothing else
BindDict(h, o, i, client) ==
    IF i > Len(h[o].dict) THEN h
    ELSE LET v == h[o].dict[i]
         IN BindDict(IF v.kind = "Object" THEN Bind(h, v.ref, client) ELSE h,
                     o, i + 1, client)

\* obj.bind(client)
bind(o, client) ==
    /\ objects' = Bind(objects, o, client)
    /\ bound' = [o |-> o, client |-> client]
    /\ UNCHANGED <<configVars, mediaVars, peerVars, lockVars, downloadVars, storageVars,
                   watchdogVars, registryVars, middlewareVars, cacheVars, updatesVars,
                   updates_queue, tasks, handler_worker_tasks, stop_pc, upd, starts, stops>>

\* Client.__init__: no media session; nothing was given to the peer store yet
ClientFields ==
    /\ media_sessions = {}
    /\ peers_written = <<>>

\* no Object exists
ObjectsIdle ==
    /\ objects = <<>>
    /\ bound = [o |-> 0, client |-> 0]

\* a Client that receives updates
DispatcherInit ==
    /\ no_updates = FALSE
    /\ DispatcherFields

\* the parts of the state a specification leaves alone
CacheIdle == capacity = 0 /\ store = <<>> /\ got = "None" /\ evicted = 0 /\ found = FALSE

UpdatesIdle ==
    /\ ignore_channel_updates_except = {}
    /\ hu = [pc |-> "idle"]
    /\ events = <<>>

\* Client.__init__: the watchdog fields; the watchdog task is not created yet
WatchdogInit ==
    /\ now = 0
    /\ last_update_time = 0
    /\ handled = 0
    /\ updates_watchdog_event = FALSE
    /\ watchdog = [pc |-> "off", deadline |-> 0]
    /\ wd_ticks = <<>>

\* ------------------------------------------------------------------ Spec:
\* the handler registry and the dispatch of updates by one worker
HandlerConfigs ==
    {c \in [cls : {"MessageHandler"}, filt : {"match", "nomatch"},
            cb : {"return", "ContinuePropagation", "StopPropagation"}] :
        c.filt = "nomatch" => c.cb = "return"}

Init ==
    /\ workers = 1
    /\ mwcalls = [m \in MiddlewareNames |-> TRUE]
    /\ DispatcherInit
    /\ WatchdogInit
    /\ ClientFields
    /\ DispatchIdle
    /\ ObjectsIdle
    /\ max_concurrent_transmissions = 1
    /\ DownloadInit
    /\ StorageReady
    /\ CacheIdle
    /\ UpdatesIdle

Next ==
    \/ \E h \in HandlerNames, g \in GroupIds, cfg \in HandlerConfigs :
          upd = <<>> /\ add_handler(h, g, cfg)
    \/ \E h \in HandlerNames, g \in GroupIds : upd = <<>> /\ remove_handler(h, g)
    \/ (starts = 0 /\ start)
    \/ (handler_worker_tasks # <<>> /\ stop_begin)
    \/ stop_return
    \/ put_update("UpdateNewMessage", "ok")
    \/ \E t \in 1..Len(tasks) : worker_get(t)
    \/ \E t \in 1..Len(tasks) : worker_handle(t)

Spec == Init /\ [][Next]_vars

\* ------------------------------------------------------------------ SpecMw:
\* the middleware chain around the dispatch of one worker
PlainHandler == [cls |-> "MessageHandler", filt |-> "match", cb |-> "return"]

\* the client starts a stopped dispatcher and stops a started one
Stopped == handler_worker_tasks = <<>> /\ stop_pc = "idle"

InitMw ==
    /\ workers = 1
    /\ mwcalls \in [MiddlewareNames -> BOOLEAN]
    /\ DispatcherInit
    /\ WatchdogInit
    /\ ClientFields
    /\ DispatchIdle
    /\ ObjectsIdle
    /\ max_concurrent_transmissions = 1
    /\ DownloadInit
    /\ StorageReady
    /\ CacheIdle
    /\ UpdatesIdle

NextMw ==
    \/ \E m \in MiddlewareNames : add_middleware(m)
    \/ \E m \in MiddlewareNames : remove_middleware(m)
    \/ (upd = <<>> /\ add_handler("H1", 0, PlainHandler))
    \/ (starts = 0 /\ start)
    \/ \E parse \in {"ok", "falsy"} : put_update("UpdateNewMessage", parse)
    \/ \E t \in 1..Len(tasks) : worker_get(t)
    \/ \E t \in 1..Len(tasks) : worker_handle(t)

SpecMw == InitMw /\ [][NextMw]_vars

\* ------------------------------------------------------------------ FairStop:
\* the workers of a dispatcher that is started and stopped, scheduled fairly
\* (the event loop runs every task that is ready)
InitStop ==
    /\ workers \in 1..MaxWorkers
    /\ mwcalls = [m \in MiddlewareNames |-> TRUE]
    /\ DispatcherInit
    /\ WatchdogInit
    /\ ClientFields
    /\ DispatchIdle
    /\ ObjectsIdle
    /\ max_concurrent_transmissions = 1
    /\ DownloadInit
    /\ StorageReady
    /\ CacheIdle
    /\ UpdatesIdle

NextStop ==
    \/ (upd = <<>> /\ add_handler("H1", 0, PlainHandler))
    \/ (Stopped /\ start)
    \/ (handler_worker_tasks # <<>> /\ stop_begin)
    \/ stop_return
    \/ \E parse \in {"ok", "raise"} : put_update("UpdateNewMessage", parse)
    \/ \E t \in 1..Len(tasks) : worker_get(t)
    \/ \E t \in 1..Len(tasks) : worker_handle(t)

FairStop ==
    /\ InitStop /\ [][NextStop]_vars
    /\ WF_vars(\E t \in 1..Len(tasks) : worker_get(t))
    /\ WF_vars(\E t \in 1..Len(tasks) : worker_handle(t))
    /\ WF_vars(stop_return)

\* ------------------------------------------------------------------ SpecCache:
\* item assignments and lookups on a Cache of any capacity up to MaxCapacity
CacheKeys == 1..MaxKeys

CacheValues == {"a", "b"}

InitCache ==
    /\ workers = 1
    /\ mwcalls = [m \in MiddlewareNames |-> TRUE]
    /\ DispatcherInit
    /\ WatchdogInit
    /\ ClientFields
    /\ DispatchIdle
    /\ ObjectsIdle
    /\ max_concurrent_transmissions = 1
    /\ DownloadInit
    /\ StorageReady
    /\ capacity \in 0..MaxCapacity
    /\ store = <<>>
    /\ got = "None"
    /\ evicted = 0
    /\ found = FALSE
    /\ UpdatesIdle

NextCache ==
    \/ \E k \in CacheKeys, v \in CacheValues : cache_setitem(k, v)
    \/ \E k \in CacheKeys : cache_getitem(k)

SpecCache == InitCache /\ [][NextCache]_vars

\* ------------------------------------------------------------------ SpecUpdates:
\* one handle_updates call on an Updates batch
Peers(id) == {<<RawPeer("User", id, b, 7, "None", <<>>, FALSE, FALSE)>> : b \in BOOLEAN}

ChatPeers(id) ==
    {<<RawPeer("Channel", id, b, 7, "None", <<>>, FALSE, TRUE)>> : b \in BOOLEAN}

BatchUpdate ==
    [type : {"UpdateNewChannelMessage"}, channel : Channels, empty : BOOLEAN]
        \cup [type : {"UpdateNewMessage"}, channel : {0}, empty : {FALSE}]

BatchUpdates == UNION {[1..n -> BatchUpdate] : n \in 0..MaxBatch}

Batches == [users : Peers(1), chats : ChatPeers(1), updates : BatchUpdates]

InitUpdates ==
    /\ workers = 1
    /\ mwcalls = [m \in MiddlewareNames |-> TRUE]
    /\ DispatcherInit
    /\ WatchdogInit
    /\ ClientFields
    /\ DispatchIdle
    /\ ObjectsIdle
    /\ max_concurrent_transmissions = 1
    /\ DownloadInit
    /\ StorageReady
    /\ CacheIdle
    /\ ignore_channel_updates_except \in {{}, {get_channel_id(1)}}
    /\ hu = [pc |-> "idle"]
    /\ events = <<>>

NextUpdates ==
    \/ \E batch \in Batches : handle_updates_begin(batch)
    \/ \E resolved \in BOOLEAN : handle_updates_loop(resolved)
    \/ \E result \in DiffResults : handle_updates_invoked(result)

SpecUpdates == InitUpdates /\ [][NextUpdates]_vars

\* ------------------------------------------------------------------ SpecWatchdog:
\* the updates watchdog beside handle_updates calls of every kind of packet
ShortDiffs == {"new_messages", "empty", "error"}

\* an Updates packet without updates and without min peers
EmptyBatch ==
    [users |-> <<RawPeer("User", 1, FALSE, 7, "None", <<>>, FALSE, FALSE)>>,
     chats |-> <<RawPeer("Channel", 1, FALSE, 7, "None", <<>>, FALSE, TRUE)>>,
     updates |-> <<>>]

InitWatchdog ==
    /\ workers = 1
    /\ mwcalls = [m \in MiddlewareNames |-> TRUE]
    /\ DispatcherInit
    /\ WatchdogInit
    /\ ClientFields
    /\ DispatchIdle
    /\ ObjectsIdle
    /\ max_concurrent_transmissions = 1
    /\ DownloadInit
    /\ StorageReady
    /\ CacheIdle
    /\ UpdatesIdle

NextWatchdog ==
    \/ time_passes
    \/ set_watchdog_event
    \/ watchdog_begin
    \/ watchdog_break
    \/ watchdog_timeout
    \/ \E ok \in BOOLEAN : watchdog_invoked(ok)
    \/ put_update("UpdateNewMessage", "ok")
    \/ \E kind \in {"UpdatesTooLong", "other"} : handle_updates_other(kind)
    \/ \E diff \in ShortDiffs : handle_updates_short_message(diff)
    \/ handle_updates_begin(EmptyBatch)
    \/ \E resolved \in BOOLEAN : handle_updates_loop(resolved)

SpecWatchdog == InitWatchdog /\ [][NextWatchdog]_vars

\* ------------------------------------------------------------------ SpecGetFile:
\* one get_file generator, from its call to its end
HOME_DC == 2

Files == [dc : {HOME_DC, 4}, cdn : BOOLEAN, len : 0..MaxFileLen, seed : {0, 1}]

InitGetFile ==
    /\ workers = 1
    /\ mwcalls = [m \in MiddlewareNames |-> TRUE]
    /\ DispatcherInit
    /\ WatchdogInit
    /\ ClientFields
    /\ DispatchIdle
    /\ ObjectsIdle
    /\ max_concurrent_transmissions = 1
    /\ DownloadInit
    /\ StorageReady
    /\ CacheIdle
    /\ UpdatesIdle

NextGetFile ==
    \/ \E file \in Files, limit \in {0, 1}, progress \in BOOLEAN :
          get_file(1, file, limit, progress)
    \/ get_file_acquire(1)
    \/ \E ok \in BOOLEAN : get_file_auth(1, ok)
    \/ \E ok \in BOOLEAN : get_file_session_start(1, ok)
    \/ \E exported \in ExportedAuths \cup {"error"} : get_file_export(1, exported)
    \/ \E ok \in BOOLEAN : get_file_import(1, ok)
    \/ \E r \in {"File", "FileCdnRedirect", "error"} : get_file_invoke(1, r)
    \/ \E how \in {"next", "close", "StopTransmission"} : get_file_resume(1, how)
    \/ \E ok \in BOOLEAN : get_file_cdn_auth(1, ok)
    \/ \E ok \in BOOLEAN : get_file_cdn_start(1, ok)
    \/ \E r2 \in {"CdnFile", "CdnFileReuploadNeeded", "error"}, k \in 0..CHUNK_SIZE :
          get_cdn_file(1, r2, k)
    \/ \E res \in {"ok", "VolumeLocNotFound", "error"} : reupload_cdn_file(1, res)
    \/ \E limit \in HashLimits \cup {0} : get_cdn_file_hashes(1, limit)
    \/ \E how \in {"next", "close", "StopTransmission"} : get_file_cdn_resume(1, how)
    \/ get_file_cdn_stop(1)
    \/ get_file_stop(1)

SpecGetFile == InitGetFile /\ [][NextGetFile]_vars

\* ------------------------------------------------------------------ SpecDownloads:
\* several get_file generators of small files of the home DC share the semaphore
SmallFile == [dc |-> HOME_DC, cdn |-> FALSE, len |-> 1, seed |-> 0]

InitDownloads ==
    /\ workers = 1
    /\ mwcalls = [m \in MiddlewareNames |-> TRUE]
    /\ DispatcherInit
    /\ WatchdogInit
    /\ ClientFields
    /\ DispatchIdle
    /\ ObjectsIdle
    /\ max_concurrent_transmissions \in 1..MaxTransmissions
    /\ DownloadInit
    /\ StorageReady
    /\ CacheIdle
    /\ UpdatesIdle

NextDownloads ==
    \/ \E d \in Downloads : get_file(d, SmallFile, 0, FALSE)
    \/ \E d \in Downloads : get_file_acquire(d)
    \/ \E d \in Downloads : get_file_auth(d, TRUE)
    \/ \E d \in Downloads, ok \in BOOLEAN : get_file_session_start(d, ok)
    \/ \E d \in Downloads, r \in {"File", "error"} : get_file_invoke(d, r)
    \/ \E d \in Downloads, how \in {"next", "close"} : get_file_resume(d, how)
    \/ \E d \in Downloads : get_file_stop(d)

SpecDownloads == InitDownloads /\ [][NextDownloads]_vars

\* ------------------------------------------------------------------ SpecTypes:
\* updates of several types dispatched to handlers of every class
TypeConfigs ==
    {c \in [cls : {"MessageHandler", "EditedMessageHandler", "RawUpdateHandler"},
            filt : {"match", "nomatch"}, cb : {"return", "ContinuePropagation"}] :
        /\ c.filt = "nomatch" => c.cb = "return"
        /\ c.cls = "RawUpdateHandler" => c.filt = "match"}

TypedUpdates == {"UpdateNewMessage", "UpdateNewChannelMessage", "UpdateEditMessage",
                 "UpdateEditChannelMessage", "UpdateUserTyping"}

InitTypes ==
    /\ workers = 1
    /\ mwcalls = [m \in MiddlewareNames |-> TRUE]
    /\ DispatcherInit
    /\ WatchdogInit
    /\ ClientFields
    /\ DispatchIdle
    /\ ObjectsIdle
    /\ max_concurrent_transmissions = 1
    /\ DownloadInit
    /\ StorageReady
    /\ CacheIdle
    /\ UpdatesIdle

NextTypes ==
    \/ \E h \in {"H1", "H2"}, cfg \in TypeConfigs : starts = 0 /\ add_handler(h, 0, cfg)
    \/ (starts = 0 /\ start)
    \/ \E type \in TypedUpdates : put_update(type, "ok")
    \/ \E t \in 1..Len(tasks) : worker_get(t)
    \/ \E t \in 1..Len(tasks) : worker_handle(t)

SpecTypes == InitTypes /\ [][NextTypes]_vars

\* ------------------------------------------------------------------ SpecSession:
\* load_session on stores with any of their fields unset
Stores ==
    [api_id : {-1, 1}, dc_id : {-1, 4}, date : {-1, 0},
     test_mode : {"None", "False"}, auth_key : {-1, 1}, user_id : {-1, 7},
     is_bot : {"None", "False"}]

InitSession ==
    /\ workers = 1
    /\ mwcalls = [m \in MiddlewareNames |-> TRUE]
    /\ DispatcherInit
    /\ WatchdogInit
    /\ ClientFields
    /\ DispatchIdle
    /\ ObjectsIdle
    /\ max_concurrent_transmissions = 1
    /\ DownloadInit
    /\ storage \in Stores
    /\ api_id \in {-1, 0, 1}
    /\ api_hash \in {"None", "", "hash"}
    /\ test_mode \in BOOLEAN
    /\ ls = [pc |-> "idle", n |-> 0, before |-> storage, hs |-> 0]
    /\ handshakes = <<>>
    /\ CacheIdle
    /\ UpdatesIdle

NextSession ==
    \/ load_session
    \/ \E ok \in BOOLEAN : load_session_handshake(ok)

SpecSession == InitSession /\ [][NextSession]_vars

\* ------------------------------------------------------------------ SpecNoUpdates:
\* a dispatcher of a Client with and without no_updates, started when it is
\* stopped and stopped when it is started
InitNoUpdates ==
    /\ workers \in 1..MaxWorkers
    /\ mwcalls = [m \in MiddlewareNames |-> TRUE]
    /\ no_updates \in BOOLEAN
    /\ DispatcherFields
    /\ WatchdogInit
    /\ ClientFields
    /\ DispatchIdle
    /\ ObjectsIdle
    /\ max_concurrent_transmissions = 1
    /\ DownloadInit
    /\ StorageReady
    /\ CacheIdle
    /\ UpdatesIdle

NextNoUpdates ==
    \/ (upd = <<>> /\ add_handler("H1", 0, PlainHandler))
    \/ (Stopped /\ starts = stops /\ start)
    \/ (starts > stops /\ stop_begin)
    \/ stop_return
    \/ put_update("UpdateNewMessage", "ok")
    \/ \E t \in 1..Len(tasks) : worker_get(t)
    \/ \E t \in 1..Len(tasks) : worker_handle(t)

SpecNoUpdates == InitNoUpdates /\ [][NextNoUpdates]_vars

\* ------------------------------------------------------------------ SpecBind:
\* bind on trees of Objects: an attribute of object i holds None, an Object
\* created after it, or a list of such Objects
Clients == {1, 2}

RECURSIVE ListsOver(_, _)
\* the lists of at most n elements of S
ListsOver(S, n) ==
    IF n = 0 THEN {<<>>}
    ELSE ListsOver(S, n - 1) \cup {Append(l, x) : l \in ListsOver(S, n - 1), x \in S}

ValuesOf(i) ==
    {NoneValue} \cup {ObjectValue(j) : j \in (i + 1)..MaxObjects}
                \cup {ListValue(l) : l \in ListsOver((i + 1)..MaxObjects, MaxListLen)}

RECURSIVE Heaps(_)
\* the heaps of the objects i..MaxObjects, none of them bound
Heaps(i) ==
    IF i > MaxObjects THEN {<<>>}
    ELSE {<<[client |-> 0, dict |-> d]>> \o h :
             d \in [1..MaxAttrs -> ValuesOf(i)], h \in Heaps(i + 1)}

InitBind ==
    /\ workers = 1
    /\ mwcalls = [m \in MiddlewareNames |-> TRUE]
    /\ DispatcherInit
    /\ WatchdogInit
    /\ ClientFields
    /\ DispatchIdle
    /\ objects \in Heaps(1)
    /\ bound = [o |-> 0, client |-> 0]
    /\ max_concurrent_transmissions = 1
    /\ DownloadInit
    /\ StorageReady
    /\ CacheIdle
    /\ UpdatesIdle

NextBind == \E o \in 1..MaxObjects, client \in Clients : bind(o, client)

SpecBind == InitBind /\ [][NextBind]_vars

\* ------------------------------------------------------------------ SpecHandshakes:
\* get_file generators of files of two DCs next to load_session, on a store that
\* may lack its auth key
TwoDownloads == {1, 2}

DcFiles == [dc : {HOME_DC, 4}, cdn : BOOLEAN, len : {1}, seed : {0}]

InitHandshakes ==
    /\ workers = 1
    /\ mwcalls = [m \in MiddlewareNames |-> TRUE]
    /\ DispatcherInit
    /\ WatchdogInit
    /\ ClientFields
    /\ DispatchIdle
    /\ ObjectsIdle
    /\ max_concurrent_transmissions \in 1..MaxTransmissions
    /\ DownloadInit
    /\ storage \in [api_id : {1}, dc_id : {HOME_DC}, date : {0}, test_mode : {"False"},
                    auth_key : {-1, 1}, user_id : {1}, is_bot : {"False"}]
    /\ api_id = 1
    /\ api_hash = "hash"
    /\ test_mode = FALSE
    /\ ls = [pc |-> "idle", n |-> 0, before |-> storage, hs |-> 0]
    /\ handshakes = <<>>
    /\ CacheIdle
    /\ UpdatesIdle

NextHandshakes ==
    \/ \E d \in TwoDownloads, file \in DcFiles : get_file(d, file, 0, FALSE)
    \/ \E d \in TwoDownloads : get_file_acquire(d)
    \/ \E d \in TwoDownloads, ok \in BOOLEAN : get_file_auth(d, ok)
    \/ \E d \in TwoDownloads : get_file_session_start(d, TRUE)
    \/ \E d \in TwoDownloads : get_file_export(d, "exported1")
    \/ \E d \in TwoDownloads : get_file_import(d, TRUE)
    \/ \E d \in TwoDownloads, r \in {"File", "FileCdnRedirect"} : get_file_invoke(d, r)
    \/ \E d \in TwoDownloads : get_file_resume(d, "next")
    \/ \E d \in TwoDownloads, ok \in BOOLEAN : get_file_cdn_auth(d, ok)
    \/ \E d \in TwoDownloads : get_file_cdn_start(d, FALSE)
    \/ \E d \in TwoDownloads : get_file_cdn_stop(d)
    \/ \E d \in TwoDownloads : get_file_stop(d)
    \/ load_session
    \/ \E ok \in BOOLEAN : load_session_handshake(ok)

SpecHandshakes == InitHandshakes /\ [][NextHandshakes]_vars

\* ------------------------------------------------------------------ SpecPeers:
\* handle_updates on batches without updates whose users and chats are of every
\* class, with and without the min flag
Usernames == {<<"Abc", <<>>>>, <<"", <<"Xyz">>>>, <<"None", <<>>>>}

RawUsers(id) ==
    {RawPeer("User", id, m, 7, n[1], n[2], b, FALSE) :
        m \in BOOLEAN, n \in Usernames, b \in BOOLEAN}
    \cup {RawPeer("UserEmpty", id, FALSE, -1, "None", <<>>, FALSE, FALSE)}

RawChats(id) ==
    {RawPeer("Channel", id, m, 7, n[1], n[2], FALSE, b) :
        m \in BOOLEAN, n \in Usernames, b \in BOOLEAN}
    \cup {RawPeer("ChannelForbidden", id, FALSE, 7, "None", <<>>, FALSE, b) : b \in BOOLEAN}
    \cup {RawPeer(cls, id, FALSE, -1, "None", <<>>, FALSE, FALSE) :
             cls \in {"Chat", "ChatForbidden", "ChatEmpty"}}

\* the lists of at most two peers, the first with id 1 and the second with id 2
PeerLists(P(_)) == {<<>>} \cup {<<a>> : a \in P(1)} \cup {<<a, b>> : a \in P(1), b \in P(2)}

FewUsers == {<<>>} \cup Peers(1)

FewChats == {<<>>, <<RawPeer("Chat", 1, FALSE, -1, "None", <<>>, FALSE, FALSE)>>}
                \cup ChatPeers(1)

\* every list of users next to a few lists of chats, and the other way round
PeerBatches ==
    [users : PeerLists(RawUsers), chats : FewChats, updates : {<<>>}]
        \cup [users : FewUsers, chats : PeerLists(RawChats), updates : {<<>>}]

InitPeers ==
    /\ workers = 1
    /\ mwcalls = [m \in MiddlewareNames |-> TRUE]
    /\ DispatcherInit
    /\ WatchdogInit
    /\ ClientFields
    /\ DispatchIdle
    /\ ObjectsIdle
    /\ max_concurrent_transmissions = 1
    /\ DownloadInit
    /\ StorageReady
    /\ CacheIdle
    /\ UpdatesIdle

NextPeers ==
    \/ \E batch \in PeerBatches : handle_updates_begin(batch)
    \/ handle_updates_loop(TRUE)

SpecPeers == InitPeers /\ [][NextPeers]_vars

\* ------------------------------------------------------------------ FairLifecycle:
\* start() and stop() called in any order, each call after the one before it
\* has returned; the workers and a waiting stop() are scheduled fairly
InitLifecycle ==
    /\ workers \in 1..MaxWorkers
    /\ mwcalls = [m \in MiddlewareNames |-> TRUE]
    /\ DispatcherInit
    /\ WatchdogInit
    /\ ClientFields
    /\ DispatchIdle
    /\ ObjectsIdle
    /\ max_concurrent_transmissions = 1
    /\ DownloadInit
    /\ StorageReady
    /\ CacheIdle
    /\ UpdatesIdle

NextLifecycle ==
    \/ (stop_pc = "idle" /\ start)
    \/ stop_begin
    \/ stop_return
    \/ put_update("UpdateNewMessage", "ok")
    \/ \E t \in 1..Len(tasks) : worker_get(t)
    \/ \E t \in 1..Len(tasks) : worker_handle(t)

FairLifecycle ==
    /\ InitLifecycle /\ [][NextLifecycle]_vars
    /\ WF_vars(\E t \in 1..Len(tasks) : worker_get(t))
    /\ WF_vars(\E t \in 1..Len(tasks) : worker_handle(t))
    /\ WF_vars(stop_return)

\* ------------------------------------------------------------------ SpecErrors:
\* one worker dispatches updates to handlers whose check() or callback may
\* raise; H1 and H2 are registered in group 0 and H3 in group 1
ErrorConfigs ==
    {c \in [cls : {"MessageHandler", "RawUpdateHandler"},
            filt : {"match", "nomatch", "raise"},
            cb : {"return", "error", "ContinuePropagation"}] :
        /\ c.filt # "match" => c.cb = "return"
        /\ c.cls = "RawUpdateHandler" => c.filt = "match" /\ c.cb # "ContinuePropagation"}

InitErrors ==
    /\ workers = 1
    /\ mwcalls = [m \in MiddlewareNames |-> TRUE]
    /\ no_updates = FALSE
    /\ handlers \in [HandlerNames -> ErrorConfigs]
    /\ groups = GroupsAfterAdd(GroupsAfterAdd(GroupsAfterAdd(<<>>, "H3", 1), "H1", 0),
                               "H2", 0)
    /\ middlewares = <<>>
    /\ middlewares_handlers = <<>>
    /\ run_middlewares = FALSE
    /\ updates_queue = <<>>
    /\ tasks = <<>>
    /\ handler_worker_tasks = <<>>
    /\ stop_pc = "idle"
    /\ upd = <<>>
    /\ starts = 0
    /\ stops = 0
    /\ started_with = <<>>
    /\ locks_list = <<>>
    /\ WatchdogInit
    /\ ClientFields
    /\ DispatchIdle
    /\ ObjectsIdle
    /\ max_concurrent_transmissions = 1
    /\ DownloadInit
    /\ StorageReady
    /\ CacheIdle
    /\ UpdatesIdle

NextErrors ==
    \/ (starts = 0 /\ start)
    \/ \E parse \in {"ok", "raise"} : starts > 0 /\ put_update("UpdateNewMessage", parse)
    \/ \E t \in 1..Len(tasks) : worker_get(t)
    \/ \E t \in 1..Len(tasks) : worker_handle(t)

SpecErrors == InitErrors /\ [][NextErrors]_vars

\* ------------------------------------------------------------------ SpecRegistry:
\* add_handler and remove_handler called while handle_update is suspended at the
\* check() or the callback of a handler (by that callback or by another task)
RegistryGroupIds == {0, 1, 2}

RegistryConfigs ==
    [cls : {"MessageHandler"}, filt : {"match"}, cb : {"return", "ContinuePropagation"}]

InitRegistry ==
    /\ workers = 1
    /\ mwcalls = [m \in MiddlewareNames |-> TRUE]
    /\ DispatcherInit
    /\ WatchdogInit
    /\ ClientFields
    /\ DispatchIdle
    /\ ObjectsIdle
    /\ max_concurrent_transmissions = 1
    /\ DownloadInit
    /\ StorageReady
    /\ CacheIdle
    /\ UpdatesIdle

NextRegistry ==
    \/ \E h \in HandlerNames, g \in RegistryGroupIds, cfg \in RegistryConfigs :
          /\ disp.pc = "idle" \/ (Dispatching(disp) /\ disp.calls < MaxCalls)
          /\ add_handler(h, g, cfg)
    \/ \E h \in HandlerNames, g \in RegistryGroupIds :
          /\ Dispatching(disp) /\ disp.calls < MaxCalls
          /\ remove_handler(h, g)
    \/ (disp.pc = "idle" /\ handle_update_call("UpdateNewMessage"))
    \/ handle_update_resume

SpecRegistry == InitRegistry /\ [][NextRegistry]_vars

\* ------------------------------------------------------------------ SpecChain:
\* middlewares added and removed around the start() calls of a dispatcher that
\* receives updates with and without a parser
ChainUpdates ==
    {<<"UpdateNewMessage", "ok">>, <<"UpdateNewMessage", "falsy">>,
     <<"UpdateUserTyping", "ok">>}

NextChain ==
    \/ \E m \in MiddlewareNames : add_middleware(m)
    \/ \E m \in MiddlewareNames : remove_middleware(m)
    \/ (starts = 0 /\ add_handler("H1", 0, PlainHandler))
    \/ start
    \/ \E p \in ChainUpdates : starts > 0 /\ put_update(p[1], p[2])
    \/ \E t \in 1..Len(tasks) : worker_get(t)
    \/ \E t \in 1..Len(tasks) : worker_handle(t)

SpecChain == InitMw /\ [][NextChain]_vars

\* ------------------------------------------------------------------ SpecRestart:
\* a dispatcher that is stopped and started again: H1 and H2 are registered
\* before the first stop() only, H2 and H3 after a stop() has returned
NextRestart ==
    \/ \E h \in {"H1", "H2"} : StopsReturned = 0 /\ add_handler(h, 0, PlainHandler)
    \/ \E h \in {"H2", "H3"} : StopsReturned > 0 /\ add_handler(h, 0, PlainHandler)
    \/ (Stopped /\ starts = stops /\ start)
    \/ (starts > stops /\ stop_begin)
    \/ stop_return
    \/ put_update("UpdateNewMessage", "ok")
    \/ \E t \in 1..Len(tasks) : worker_get(t)
    \/ \E t \in 1..Len(tasks) : worker_handle(t)

SpecRestart == InitNoUpdates /\ [][NextRestart]_vars

\* ------------------------------------------------------------------ SpecPackets:
\* one handle_updates call on a batch, beside handle_updates calls on the other
\* kinds of packet made while it is suspended
NextPackets ==
    \/ \E batch \in Batches : handle_updates_begin(batch)
    \/ \E resolved \in BOOLEAN : handle_updates_loop(resolved)
    \/ \E result \in DiffResults : handle_updates_invoked(result)
    \/ \E kind \in {"UpdatesTooLong", "other"} : handle_updates_other(kind)
    \/ \E diff \in ShortDiffs \cup {"other_updates"} : handle_updates_short_message(diff)

SpecPackets == InitUpdates /\ [][NextPackets]_vars

\* ------------------------------------------------------------------ claims
Done(u) == upd[u].status = "done" /\ upd[u].out \in {"handled", "StopPropagation"}

Ran(u) == upd[u].log.ran

RanSet(u) == {Ran(u)[i].h : i \in 1..Len(Ran(u))}

Cb(u, i) == upd[u].log.cfg[Ran(u)[i].h].cb

SnapshotIds(u) == {upd[u].log.groups[i].id : i \in 1..Len(upd[u].log.groups)}

\* C1 as stated: when a handler of group g ran and returned without raising, at
\* most one handler of g ran for the update and every group with a greater id
\* was visited.
C1_AtMostOnePerGroup ==
    \A u \in 1..Len(upd) : Done(u) =>
        \A i \in 1..Len(Ran(u)) : Cb(u, i) = "return" =>
            /\ Cardinality({j \in 1..Len(Ran(u)) : Ran(u)[j].g = Ran(u)[i].g}) <= 1
            /\ \A g \in SnapshotIds(u) : g > Ran(u)[i].g => g \in Range(upd[u].log.visited)

\* C1 amended: when a handler h of group g ran and returned without raising, h
\* is the last handler of g that ran for the update, every handler of g that ran
\* before h raised ContinuePropagation, and every group with a greater id was
\* visited unless a handler of a later group raised StopPropagation.
C1_LastOfGroup ==
    \A u \in 1..Len(upd) : Done(u) =>
        \A i \in 1..Len(Ran(u)) : Cb(u, i) = "return" =>
            /\ \A j \in 1..Len(Ran(u)) : Ran(u)[j].g = Ran(u)[i].g =>
                   /\ j <= i
                   /\ j < i => Cb(u, j) = "ContinuePropagation"
            /\ \A g \in SnapshotIds(u) : g > Ran(u)[i].g =>
                   \/ g \in Range(upd[u].log.visited)
                   \/ /\ upd[u].out = "StopPropagation"
                      /\ Ran(u)[Len(Ran(u))].g > Ran(u)[i].g

\* a dispatch in which a handler returned after another handler of its group had
\* raised ContinuePropagation, and a later group was visited
C1_Witness ==
    \E u \in 1..Len(upd) : Done(u) /\
        \E i, j \in 1..Len(Ran(u)) :
            /\ j < i /\ Ran(u)[j].g = Ran(u)[i].g /\ Cb(u, i) = "return"
            /\ \E k \in 1..Len(Ran(u)) : Ran(u)[k].g > Ran(u)[i].g

\* the registry of scenario e: H1 and H2 in group 0, H3 in group 1, all matching,
\* H2 and H3 returning, H1's callback ending as `cb`
ScenarioE(u, cb) ==
    /\ Done(u)
    /\ upd[u].log.groups = <<[id |-> 0, hs |-> {"H1", "H2"}], [id |-> 1, hs |-> {"H3"}]>>
    /\ \A h \in HandlerNames : upd[u].log.cfg[h].filt = "match"
    /\ upd[u].log.cfg["H1"].cb = cb
    /\ upd[u].log.cfg["H2"].cb = "return"
    /\ upd[u].log.cfg["H3"].cb = "return"

\* C2: with H1, H2 in group 0 and H3 in group 1, all matching and none raising,
\* exactly H1 and H3 run.
C2_FirstRegisteredRuns ==
    \A u \in 1..Len(upd) : ScenarioE(u, "return") => RanSet(u) = {"H1", "H3"}

\* C3: in the same registry with H1 raising ContinuePropagation, H1, H2 and H3
\* all run.
C3_ContinueRunsAll ==
    \A u \in 1..Len(upd) :
        ScenarioE(u, "ContinuePropagation") => RanSet(u) = {"H1", "H2", "H3"}

\* C4: in the same registry with H1 raising StopPropagation, only H1 runs, and
\* the worker is back at the queue.
C4_StopRunsOnlyFirst ==
    \A u \in 1..Len(upd) :
        ScenarioE(u, "StopPropagation") =>
            /\ RanSet(u) = {"H1"}
            /\ \A t \in 1..Len(tasks) : tasks[t].u # u

Ascending(ids) == \A i, j \in 1..Len(ids) : i < j => ids[i] < ids[j]

GroupIdsOf(gs) == [i \in 1..Len(gs) |-> gs[i].id]

\* C5 as stated: the group mapping always iterates in strictly ascending order
\* of group id.
C5_GroupsAscending == Ascending(GroupIdsOf(groups))

NonEmpty(gs) == SelectSeq(gs, LAMBDA e : e.hs # {})

\* C5 amended: the groups that hold at least one handler are iterated in
\* strictly ascending order of group id, so the handlers of a lower group are
\* offered an update before the handlers of any higher group; a group that
\* remove_handler created for an id never added is empty and may sit out of
\* order.
C5_HandlerGroupsAscending ==
    /\ Ascending(GroupIdsOf(NonEmpty(groups)))
    /\ \A u \in 1..Len(upd) :
          \A i, j \in 1..Len(upd[u].log.offered) :
              i < j => upd[u].log.offered[i].g <= upd[u].log.offered[j].g

\* an update was offered to handlers of two groups by a dispatcher whose group
\* mapping was out of order
C5_Witness ==
    \E u \in 1..Len(upd) :
        /\ ~Ascending(GroupIdsOf(upd[u].log.groups))
        /\ upd[u].log.offered # <<>>

\* C6: the middlewares registered at start() are entered in registration order,
\* the first registered outermost, each entered only when the one before it
\* called its call_next, and the handlers are dispatched only when every
\* middleware called its call_next.
C6_MiddlewareOrder ==
    \A u \in 1..Len(upd) : (upd[u].status = "done" /\ upd[u].log.chain) =>
        LET l == upd[u].log
        IN /\ IsPrefix(l.mws, l.started_with)
           /\ \A i \in 1..Len(l.mws) - 1 : mwcalls[l.mws[i]]
           /\ upd[u].out # "blocked" <=>
                  (l.mws = l.started_with /\ \A m \in Range(l.started_with) : mwcalls[m])
           /\ upd[u].out = "blocked" => l.ran = <<>>

\* an update passed through two middlewares and reached a handler
C6_Witness ==
    \E u \in 1..Len(upd) :
        /\ upd[u].status = "done" /\ upd[u].log.chain
        /\ Len(upd[u].log.mws) >= 2
        /\ upd[u].log.mws[1] # upd[u].log.mws[2]
        /\ upd[u].log.ran # <<>>

AllExited == tasks # <<>> /\ \A t \in 1..Len(tasks) : tasks[t].pc = "done"

C8_CacheBounded == Len(store) <= capacity

\* an assignment to a full Cache has just evicted entries
C8_Witness == capacity = 3 /\ evicted = 2 /\ Len(store) = 2

Call == hu.pc # "idle"

BatchHasMin ==
    \/ \E i \in 1..Len(hu.batch.users) : hu.batch.users[i].min
    \/ \E i \in 1..Len(hu.batch.chats) : hu.batch.chats[i].min

\* the positions of the events of kind k for update i of the batch
EventsOf(k, i) == {e \in 1..Len(events) : events[e].k = k /\ events[e].i = i}

\* the new-channel-message updates of the batch with a non-empty message
Resolvable == {i \in 1..Len(hu.batch.updates) :
                  /\ hu.batch.updates[i].type = "UpdateNewChannelMessage"
                  /\ ~hu.batch.updates[i].empty}

OutsideList(i) ==
    /\ ignore_channel_updates_except # {}
    /\ get_channel_id(hu.batch.updates[i].channel) \notin ignore_channel_updates_except

ResolvedBeforePut(i) ==
    \A p \in EventsOf("put", i) :
        /\ \E e \in EventsOf("GetChannelDifference", i) : e < p
        /\ \A e \in EventsOf("ChannelDifference", i) :
              e < p /\ DiffUsers \subseteq events[p].users /\ DiffChats \subseteq events[p].chats

\* C9 as stated: in a batch with a min peer GetChannelDifference is invoked for
\* every new-channel-message update with a non-empty message before the update
\* is put on the queue; in a batch without one it is never invoked.
C9_EveryChannelMessageResolved ==
    (Call /\ hu.pc = "done") =>
        IF BatchHasMin
        THEN \A i \in Resolvable :
                /\ EventsOf("GetChannelDifference", i) # {}
                /\ EventsOf("put", i) # {}
                /\ ResolvedBeforePut(i)
        ELSE \A i \in 1..Len(hu.batch.updates) : EventsOf("GetChannelDifference", i) = {}

\* C9 amended: in a batch with a min peer, a new-channel-message update with a
\* non-empty message whose channel ignore_channel_updates_except does not
\* exclude is put on the queue only after GetChannelDifference was invoked for
\* it and the users and chats it returned were merged in, and a call that
\* returns has done so for each of them; for an excluded channel, and in a
\* batch without a min peer, GetChannelDifference is never invoked.
C9_ListedChannelMessagesResolved ==
    Call =>
        IF BatchHasMin
        THEN \A i \in Resolvable :
                IF OutsideList(i)
                THEN EventsOf("GetChannelDifference", i) = {}
                ELSE /\ ResolvedBeforePut(i)
                     /\ hu.pc = "done" =>
                           /\ EventsOf("GetChannelDifference", i) # {}
                           /\ EventsOf("put", i) # {}
        ELSE \A i \in 1..Len(hu.batch.updates) : EventsOf("GetChannelDifference", i) = {}

\* a call returned after it resolved an update of a batch whose only min peer
\* is a chat, merged the answer and put the update on the queue, and skipped the
\* resolution of an update from a channel outside the list
C9_Witness ==
    /\ Call /\ hu.pc = "done"
    /\ ~update_storage_peers(hu.batch.users)
    /\ \E i \in Resolvable : ~OutsideList(i) /\ EventsOf("ChannelDifference", i) # {}
                                /\ EventsOf("put", i) # {}
    /\ \E i \in Resolvable : OutsideList(i)

\* C10: with a non-empty ignore_channel_updates_except, a new-channel-message
\* update from a channel outside the list is not resolved but is still put on
\* the queue with the users and chats of the batch, min peer or not.
C10_OutsideListStillQueued ==
    (Call /\ hu.pc = "done") =>
        \A i \in 1..Len(hu.batch.updates) :
            (hu.batch.updates[i].type = "UpdateNewChannelMessage" /\ OutsideList(i)) =>
                /\ EventsOf("GetChannelDifference", i) = {}
                /\ \E p \in EventsOf("put", i) :
                      /\ PeerIds(hu.batch.users) \subseteq events[p].users
                      /\ PeerIds(hu.batch.chats) \subseteq events[p].chats

\* ---- C11
\* C11: while the watchdog runs, GetState is invoked at a tick of the watchdog
\* exactly when more than UPDATES_WATCHDOG_INTERVAL has passed since the last
\* handle_updates call (since the construction of the Client when there was
\* none); every handle_updates call, of whatever kind of packet, resets the idle
\* time; GetState is awaited only after a tick that found the client idle.
C11_WatchdogIdle ==
    /\ last_update_time = handled
    /\ \A i \in 1..Len(wd_ticks) :
          wd_ticks[i].invoked <=>
              wd_ticks[i].t - wd_ticks[i].handled > UPDATES_WATCHDOG_INTERVAL
    /\ watchdog.pc = "invoke" =>
          /\ wd_ticks # <<>>
          /\ wd_ticks[Len(wd_ticks)].invoked

\* a tick that found an update handled within the interval and invoked nothing,
\* and a later tick that found the client idle and invoked GetState
C11_Witness ==
    \E i, j \in 1..Len(wd_ticks) :
        /\ i < j
        /\ wd_ticks[i].handled > 0 /\ ~wd_ticks[i].invoked
        /\ wd_ticks[j].invoked

\* ---- C12
CallIs(f, i, on, fn) == f.calls[i].on = on /\ f.calls[i].fn = fn

CallsOf(f, on, fn) == {i \in 1..Len(f.calls) : CallIs(f, i, on, fn)}

\* C12: for a file on a DC other than the home DC every upload.GetFile on the
\* secondary session comes after the start of that session, then one
\* auth.ExportAuthorization for that DC on the home session and then
\* auth.ImportAuthorization with the exported authorization on the secondary
\* session; for a file on the home DC neither export nor import is invoked.
C12_ExportImportBeforeGetFile ==
    LET f == dl[1]
    IN IF f.file.dc # storage.dc_id
       THEN /\ \A g \in CallsOf(f, "secondary", "GetFile") :
                  \E s, e, i \in 1..g :
                      /\ s < e /\ e < i /\ i < g
                      /\ CallIs(f, s, "secondary", "start")
                      /\ CallIs(f, e, "home", "ExportAuthorization")
                      /\ f.calls[e].arg = f.file.dc
                      /\ CallIs(f, i, "secondary", "ImportAuthorization")
                      /\ f.calls[i].arg = f.exported
                      /\ f.exported \in ExportedAuths
            /\ Cardinality(CallsOf(f, "home", "ExportAuthorization")) <= 1
            /\ Cardinality(CallsOf(f, "secondary", "ImportAuthorization")) <= 1
       ELSE /\ CallsOf(f, "home", "ExportAuthorization") = {}
            /\ CallsOf(f, "secondary", "ImportAuthorization") = {}

\* a file of a remote DC of which two chunks were requested
C12_Witness ==
    /\ dl[1].file.dc # storage.dc_id
    /\ Cardinality(CallsOf(dl[1], "secondary", "GetFile")) = 2

\* ---- C13
\* C13: a generator that has ended has stopped the secondary session it created
\* exactly once and, when it opened a CDN session, has stopped that one exactly
\* once and before the secondary session; no session is ever stopped twice, and
\* a generator that created no session stops none.
C13_SessionsStoppedOnce ==
    LET f == dl[1]
        session_stops == CallsOf(f, "secondary", "stop")
        cdn_stops == CallsOf(f, "cdn", "stop")
    IN /\ Cardinality(session_stops) <= 1
       /\ Cardinality(cdn_stops) <= 1
       /\ f.session = "none" => session_stops = {}
       /\ f.cdn_session = "none" => cdn_stops = {}
       /\ f.pc = "ended" /\ f.session # "none" =>
             /\ Cardinality(session_stops) = 1 /\ f.session = "stopped"
             /\ f.cdn_session # "none" =>
                   /\ Cardinality(cdn_stops) = 1 /\ f.cdn_session = "stopped"
                   /\ \A i \in cdn_stops, j \in session_stops : i < j

\* a CDN download that ended on a hash mismatch with both sessions stopped
C13_Witness ==
    /\ dl[1].pc = "ended"
    /\ dl[1].logged = "CDNFileHashMismatch"
    /\ dl[1].cdn_session = "stopped"
    /\ dl[1].session = "stopped"

\* ---- C14
\* the downloads between taking the permit and the end of the generator
InProgress == {d \in Downloads : dl[d].pc \notin {"new", "acquire", "ended"}}

\* C14: the get_file generators that hold a permit of the semaphore and have not
\* ended are never more than max_concurrent_transmissions; every generator that
\* ended, however it ended, has given its permit back, so that the free permits
\* are max_concurrent_transmissions less the downloads in progress.
C14_BoundedDownloads ==
    /\ Cardinality(InProgress) <= max_concurrent_transmissions
    /\ permits = max_concurrent_transmissions - Cardinality(InProgress)

\* all permits are taken by a download that is suspended at a yield, a further
\* download waits for a permit, and one has ended by a close of its consumer
C14_Witness ==
    /\ max_concurrent_transmissions = 1
    /\ permits = 0
    /\ \E d \in Downloads : dl[d].pc = "acquire"
    /\ \E d \in Downloads : dl[d].pc = "ended" /\ dl[d].out = "GeneratorExit"
    /\ \E d \in Downloads : dl[d].pc = "yield"

\* ---- C15
\* the part of a chunk that a hash of the origin covers
HashedPart(chunk, offset, h) == Slice(chunk, h.offset - offset, h.offset - offset + h.limit)

\* C15 (as stated): a decrypted chunk that a CDN download yields matches every
\* hash that upload.GetCdnFileHashes returned for its offset, each hash compared
\* with the SHA-256 of the part of the chunk it covers; after a hash mismatch
\* nothing more is requested from the CDN or the origin and nothing is yielded.
C15_YieldedChunksVerified ==
    LET f == dl[1]
        last == Len(f.calls)
    IN /\ f.pc = "cdn_yield" =>
             \A j \in 1..Len(f.hashes) :
                 f.hashes[j].hash =
                     sha256(HashedPart(f.yielded[Len(f.yielded)], f.offset_bytes, f.hashes[j]))
       /\ "CDNFileHashMismatch" \in {f.exc, f.logged} =>
             /\ Len(f.yielded) = Cardinality(CallsOf(f, "secondary", "GetCdnFileHashes")) - 1
             /\ \A m \in CallsOf(f, "secondary", "GetCdnFileHashes") :
                   (\A n \in CallsOf(f, "secondary", "GetCdnFileHashes") : n <= m)
                       => \A i \in (m + 1)..last : f.calls[i].fn = "stop"

\* ---- C16
\* the plaintext of a whole file
Plaintext(file) == [i \in 1..file.len |-> Unit(file.seed, i)]

\* C16 (as stated): in a CDN download in which no peer fails and the consumer
\* takes every chunk, each upload.ReuploadCdnFile call on the origin session
\* follows a upload.GetCdnFile call for the same offset and is followed by one,
\* and a download with such a call ends normally with the chunks it yielded
\* making up the plaintext of the file.
C16_ReuploadThenRetry ==
    LET f == dl[1]
    IN f.file.cdn /\ ~f.fault /\ f.limit = 0 =>
          /\ \A j \in CallsOf(f, "secondary", "ReuploadCdnFile") :
                /\ j > 1
                /\ CallIs(f, j - 1, "cdn", "GetCdnFile")
                /\ f.calls[j - 1].arg = f.calls[j].arg
                /\ j < Len(f.calls) =>
                      /\ CallIs(f, j + 1, "cdn", "GetCdnFile")
                      /\ f.calls[j + 1].arg = f.calls[j].arg
          /\ f.pc = "ended" /\ CallsOf(f, "secondary", "ReuploadCdnFile") # {} =>
                /\ f.out = "end"
                /\ Concat(f.yielded) = Plaintext(f.file)

\* ---- C17
\* C17 (as stated): a generator that ended after an error it did not recover
\* from (an RPC error, a failed session start, a CDN hash mismatch) has raised
\* to its consumer, and handle_download returns None for it.
C17_ErrorsSurfaced ==
    dl[1].pc = "ended" /\ dl[1].logged # "none" =>
        /\ dl[1].out # "end"
        /\ handle_download(dl[1]).file = "None"

\* ---- C18
\* the classes of the handlers whose check() or callback was called for update u
ClassesGiven(u) ==
    {upd[u].log.cfg[upd[u].log.checked[i].h].cls : i \in 1..Len(upd[u].log.checked)}

\* C18: for an edited-message update the check() or the callback of a handler is
\* called only when the handler is an EditedMessageHandler or a RawUpdateHandler,
\* never for a MessageHandler; for a new-message update it is never called for an
\* EditedMessageHandler.
C18_HandlerClassMatchesUpdate ==
    \A u \in 1..Len(upd) :
        /\ upd[u].type \in EDIT_MESSAGE_UPDATES =>
              ClassesGiven(u) \subseteq {"EditedMessageHandler", "RawUpdateHandler"}
        /\ upd[u].type \in NEW_MESSAGE_UPDATES =>
              "EditedMessageHandler" \notin ClassesGiven(u)

\* an edited-message update went to an EditedMessageHandler and past a
\* MessageHandler, and a new-message update went to that MessageHandler
C18_Witness ==
    \E u, v \in 1..Len(upd) :
        /\ upd[u].type \in EDIT_MESSAGE_UPDATES /\ upd[u].status = "done"
        /\ ClassesGiven(u) = {"EditedMessageHandler"}
        /\ Len(upd[u].log.offered) = 2
        /\ upd[v].type \in NEW_MESSAGE_UPDATES /\ upd[v].status = "done"
        /\ ClassesGiven(v) = {"MessageHandler"}

\* ---- C19
\* the store as the running or last load_session call found it lacked one of
\* test_mode, auth_key, user_id, is_bot
FoundEmpty ==
    \/ ls.before.test_mode = "None" \/ ls.before.auth_key = -1
    \/ ls.before.user_id = -1 \/ ls.before.is_bot = "None"

ApiKeyMissing == api_id \in {-1, 0} \/ api_hash \in {"None", ""}

\* C19: a load_session call that found the store lacking one of the four fields
\* and the API key present starts one handshake and, when it returns, has
\* stored dc_id = 2 and the auth key of that handshake; with the API key missing
\* it raises with no handshake started and no field of the store written; a
\* call that found all four fields starts no handshake and leaves the stored
\* auth key as it was.
C19_LoadSession ==
    ls.n > 0 =>
        LET made == Len(handshakes) - ls.hs
        IN IF FoundEmpty
           THEN IF ApiKeyMissing
                THEN ls.pc = "raised" /\ made = 0 /\ storage = ls.before
                ELSE /\ ls.pc = "handshake" => made = 0 /\ storage.dc_id = 2
                     /\ ls.pc # "handshake" =>
                           /\ made = 1
                           /\ handshakes[Len(handshakes)].dc = 2
                           /\ storage.dc_id = 2
                     /\ ls.pc = "returned" =>
                           /\ handshakes[Len(handshakes)].ok
                           /\ storage.auth_key = NewKey(Len(handshakes))
                           /\ storage.auth_key # ls.before.auth_key
                     /\ ls.pc = "raised" => storage.auth_key = ls.before.auth_key
           ELSE /\ ls.pc = "returned"
                /\ made = 0
                /\ storage.auth_key = ls.before.auth_key

\* a second call that found is_bot and user_id unset after a first handshake,
\* made a handshake of its own and stored its key
C19_Witness ==
    /\ ls.n = 2 /\ ls.pc = "returned"
    /\ ls.before.auth_key = NewKey(1)
    /\ storage.auth_key = NewKey(2)
    /\ storage.dc_id = 2

\* ---- C20
\* C20: with no_updates set no handler_worker task is ever created, every update
\* put on the queue stays there with no handler invoked for it, and a stop()
\* call puts no sentinel on the queue and does not wait: it has returned at once.
C20_NoUpdatesNoWorkers ==
    no_updates =>
        /\ tasks = <<>>
        /\ handler_worker_tasks = <<>>
        /\ stop_pc = "idle"
        /\ \A i \in 1..Len(updates_queue) : updates_queue[i] # 0
        /\ \A u \in 1..Len(upd) :
              /\ upd[u].status = "queued"
              /\ upd[u].log = NoLog
              /\ \E i \in 1..Len(updates_queue) : updates_queue[i] = u

\* a dispatcher with a handler was started and stopped with no_updates set and
\* updates were put on its queue
C20_Witness ==
    /\ no_updates
    /\ starts > 0 /\ stops > 0
    /\ groups # <<>>
    /\ Len(upd) = MaxUpdates

\* the Objects an attribute of o holds, itself or inside a list
Children(h, o) ==
    UNION {IF h[o].dict[i].kind = "Object" THEN {h[o].dict[i].ref}
           ELSE Range(h[o].dict[i].items) : i \in 1..Len(h[o].dict)}

RECURSIVE Nested(_, _)
\* o and every Object nested in it at any depth
Nested(h, o) == {o} \cup UNION {Nested(h, x) : x \in Children(h, o)}

\* C21: after obj.bind(client), obj and every Object nested in it at any depth,
\* the Objects inside its list attributes included, have that client
C21_BindReachesAll ==
    bound.o # 0 => \A x \in Nested(objects, bound.o) : objects[x].client = bound.client

\* the updates waiting on the queue
QueuedUpdates == SelectSeq(updates_queue, LAMBDA x : x # 0)

\* C22: the work queue is bounded: while the workers run there is a capacity,
\* smaller than the number of updates handle_updates puts, that the number of
\* queued updates never exceeds
C22_QueueBounded ==
    (handler_worker_tasks # <<>> /\ stop_pc = "idle") => Len(QueuedUpdates) < MaxUpdates

\* the Auth(...).create() calls against datacenter dc that are awaited: by a
\* get_file generator for its session or for its CDN session, and by load_session
Handshaking(dc) ==
    Cardinality({d \in Downloads : \/ dl[d].pc = "auth" /\ dl[d].remote /\ dl[d].file.dc = dc
                                   \/ dl[d].pc = "cdn_auth" /\ dc = CDN_DC})
    + (IF ls.pc = "handshake" /\ storage.dc_id = dc THEN 1 ELSE 0)

\* C23: no two authorization-key handshakes against the same datacenter run at
\* the same time, for any interleaving of get_file calls and load_session and
\* any max_concurrent_transmissions
C23_OneHandshakePerDc == \A dc \in {HOME_DC, 4, CDN_DC} : Handshaking(dc) <= 1

\* C24: once a get_file call on a file of a foreign datacenter has created its
\* session, media_sessions holds an entry for that datacenter, and the session
\* is still open when the call is over
C24_MediaSessionKept ==
    \A d \in Downloads :
        (dl[d].remote /\ dl[d].session # "none") =>
            /\ dl[d].file.dc \in media_sessions
            /\ dl[d].session # "stopped"

\* the workers that have dequeued update u and not yet finished with it
Holders(u) == {t \in 1..Len(tasks) : tasks[t].pc = "handle" /\ tasks[t].u = u}

\* C25: a worker has at most one update in hand and it is the one it
\* dispatches; every worker has a lock of its own, which it holds exactly while
\* it dispatches, so that no worker ever waits for the lock of another
C25_WorkersSequential ==
    /\ \A u \in DOMAIN upd :
          Cardinality(Holders(u)) = IF upd[u].status = "taken" THEN 1 ELSE 0
    /\ \A t \in 1..Len(tasks) :
          /\ tasks[t].pc = "handle" <=> tasks[t].u \in DOMAIN upd
          /\ tasks[t].lock \in 1..Len(locks_list)
          /\ locks_list[tasks[t].lock] = (tasks[t].pc = "handle")
    /\ \A t1, t2 \in 1..Len(tasks) : t1 # t2 => tasks[t1].lock # tasks[t2].lock

\* two workers dispatch two different updates at the same time
C25_Witness ==
    \E t1, t2 \in 1..Len(tasks) :
        /\ t1 # t2
        /\ tasks[t1].pc = "handle" /\ tasks[t2].pc = "handle"
        /\ tasks[t1].u # tasks[t2].u
        /\ locks_list[tasks[t1].lock] /\ locks_list[tasks[t2].lock]

\* the entries in the order of their last assignment, once key k is assigned
Recency(k, v) == Append(SelectSeq(store, LAMBDA e : e.key # k), [key |-> k, value |-> v])

IsSuffix(s, t) ==
    Len(s) <= Len(t) /\ \A i \in 1..Len(s) : s[i] = t[Len(t) - Len(s) + i]

\* C26: an assignment that brings the Cache above its capacity evicts exactly
\* capacity // 2 + 1 entries, any other assignment none; the entries that stay
\* are the most recently assigned ones, in the order of their last assignment
\* (a key assigned again counts as the most recent); a lookup leaves the store
\* as it is
C26_EvictsLeastRecent ==
    [][/\ \A k \in CacheKeys, v \in CacheValues :
             cache_setitem(k, v) =>
                /\ IsSuffix(store', Recency(k, v))
                /\ Len(Recency(k, v)) - Len(store') =
                       IF Len(Recency(k, v)) > capacity THEN capacity \div 2 + 1 ELSE 0
       /\ \A k \in CacheKeys : cache_getitem(k) => store' = store]_vars

\* the assignment of a new key to a full Cache has just evicted
\* capacity // 2 + 1 entries, and the entries left are not in the order of
\* their keys
C26_Witness ==
    /\ ~found
    /\ capacity = MaxCapacity
    /\ evicted = capacity \div 2 + 1
    /\ Len(store) = capacity - capacity \div 2
    /\ store[Len(store)].key < store[1].key

\* the peer id under which a raw peer is stored
StoredId(peer) ==
    CASE peer.cls \in {"User", "UserEmpty"} -> peer.id
      [] peer.cls \in {"Channel", "ChannelForbidden"} -> get_channel_id(peer.id)
      [] OTHER -> 0 - peer.id

\* call c of update_storage_peers, made on the list `peers`, kept to the claim
PeersCallOk(c, peers) ==
    /\ c.is_min <=> \E i \in 1..Len(peers) : peers[i].min
    /\ \A j \in 1..Len(c.peers) :
          /\ c.peers[j].peer_type \in {"user", "bot", "group", "supergroup", "channel"}
          /\ c.peers[j].peer_type = "group" => c.peers[j].access_hash = 0
          /\ \A i \in 1..Len(peers) :
                StoredId(peers[i]) = c.peers[j].peer_id => ~peers[i].min
    /\ \A i \in 1..Len(peers) :
          (~peers[i].min /\ peers[i].cls \in StoredClasses) =>
              \E j \in 1..Len(c.peers) : c.peers[j].peer_id = StoredId(peers[i])

\* C27: update_storage_peers writes no peer that carries the min flag and
\* returns true exactly when a peer of its input carries it; every record it
\* writes has one of the five peer types, and a group record has access_hash 0;
\* handle_updates makes the call for the users and for the chats of a batch,
\* whatever the call for the users returned
C27_PeersStored ==
    hu.pc # "idle" =>
        /\ Len(peers_written) = 2
        /\ PeersCallOk(peers_written[1], hu.batch.users)
        /\ PeersCallOk(peers_written[2], hu.batch.chats)
        /\ hu.is_min <=> (peers_written[1].is_min \/ peers_written[2].is_min)

\* a batch whose users hold a min peer and a peer that is stored, and whose chats
\* hold a basic group, which is stored as well
C27_Witness ==
    /\ hu.pc = "done"
    /\ Len(hu.batch.users) = 2
    /\ hu.batch.users[1].min
    /\ Len(peers_written[1].peers) = 1
    /\ peers_written[1].is_min
    /\ \E j \in 1..Len(peers_written[2].peers) : peers_written[2].peers[j].peer_type = "group"

\* how often update u occurs on the queue
TimesQueued(u) == Cardinality({i \in 1..Len(updates_queue) : updates_queue[i] = u})

\* update u is on the queue once and in no worker's hands, or in the hands of the
\* one worker that dequeued it, or done after one dequeue
OnePlace(u) ==
    /\ upd[u].gets <= 1
    /\ upd[u].runs <= 1
    /\ TimesQueued(u) = IF upd[u].status = "queued" THEN 1 ELSE 0
    /\ Cardinality(Holders(u)) = IF upd[u].status = "taken" THEN 1 ELSE 0
    /\ upd[u].gets = IF upd[u].status = "queued" THEN 0 ELSE 1
    /\ upd[u].status # "done" => upd[u].runs = 0

WorkersRunning == handler_worker_tasks # <<>> /\ stop_pc = "idle"

\* the status of the u-th update, "none" before it is put
StatusOf(u) == IF u \in DOMAIN upd THEN upd[u].status ELSE "none"

\* C28 as it was claimed: every update is dequeued by exactly one worker and,
\* once the worker is done with it, has been dispatched to the handlers exactly
\* once
C28_EveryUpdateDispatchedOnce ==
    \A u \in 1..Len(upd) :
        /\ OnePlace(u)
        /\ upd[u].status = "done" => upd[u].runs = 1

\* C28: every update put on the queue is dequeued by exactly one worker and
\* dispatched to the handlers at most once: exactly once when its parser
\* returns, and not at all when its parser raises; an update that is queued
\* while workers are running is dequeued and finished
C28_DequeuedOnceDispatchedOnceIfParsed ==
    /\ [](\A u \in 1..Len(upd) :
            /\ OnePlace(u)
            /\ upd[u].status = "done" =>
                  upd[u].runs = IF upd[u].out = "parser error" THEN 0 ELSE 1)
    /\ \A u \in 1..MaxUpdates :
          (StatusOf(u) = "queued" /\ WorkersRunning) ~> (StatusOf(u) = "done")

\* two workers are running and both updates are done, each after one dequeue: one
\* was dispatched once, the parser of the other raised
C28_Witness ==
    /\ workers = 2
    /\ WorkersRunning
    /\ Len(upd) = 2
    /\ \A u \in 1..2 : upd[u].status = "done" /\ upd[u].gets = 1
    /\ upd[1].runs = 1
    /\ upd[2].out = "parser error" /\ upd[2].runs = 0

\* the worker tasks that have not exited
Running == {t \in 1..Len(tasks) : tasks[t].pc # "done"}

\* C29: after any sequence of start() and stop() calls, every stop() returns;
\* when it has returned no worker task is running and no sentinel is left on the
\* queue; and after a start() exactly `workers` workers are running
C29_AnyStartStopSequence ==
    /\ [](Stopped /\ stops > 0 => Running = {} /\ 0 \notin Range(updates_queue))
    /\ [](WorkersRunning => Cardinality(Running) = workers)
    /\ ((stop_pc = "await") ~> (stop_pc = "idle"))

\* in the dispatch of update u, the handler at place i of the ones the loop came
\* to is one whose check() raises
CheckRaises(u, i) ==
    LET c == upd[u].log.cfg[upd[u].log.offered[i].h]
    IN c.cls = update_parsers(upd[u].type) /\ c.filt = "raise"

\* ... is one whose callback raises an ordinary exception
CallbackRaises(u, i) ==
    LET c == upd[u].log.cfg[upd[u].log.offered[i].h]
    IN /\ c.cb = "error"
       /\ \/ c.cls = update_parsers(upd[u].type) /\ c.filt = "match"
          \/ c.cls # update_parsers(upd[u].type) /\ c.cls = "RawUpdateHandler"

\* the inner loop went on after place i: to another handler of the group, or to
\* the end of the group
GroupWentOn(u, i) ==
    LET l == upd[u].log
        e == l.offered[i]
    IN \/ i < Len(l.offered) /\ l.offered[i + 1].g = e.g
       \/ \A k \in 1..Len(l.groups) :
             l.groups[k].id = e.g =>
                 \A h \in l.groups[k].hs : [g |-> e.g, h |-> h] \in Range(l.offered)

\* the dispatch left the group at place i and went to the next group, if any
NextGroupTaken(u, i) ==
    LET l == upd[u].log
        e == l.offered[i]
    IN /\ \A j \in (i + 1)..Len(l.offered) : l.offered[j].g # e.g
       /\ \A k \in 1..Len(l.groups) :
             (l.groups[k].id = e.g /\ k < Len(l.groups)) =>
                 l.groups[k + 1].id \in Range(l.visited)

\* C30: no exception of a parser, a check() or a callback ends the worker;
\* when the parser raises no handler is offered the update; a handler whose
\* check() raises is logged and passed over and the loop goes on in its group; a
\* handler whose callback raises an ordinary exception is logged, counts as run,
\* and the dispatch goes on with the next group
C30_ExceptionsContained ==
    /\ \A t \in 1..Len(tasks) : tasks[t].pc \in {"get", "handle"}
    /\ \A u \in 1..Len(upd) :
          /\ upd[u].parse = "raise" /\ upd[u].status # "queued" =>
                upd[u].status = "done" /\ upd[u].out = "parser error" /\ upd[u].log = NoLog
          /\ \A i \in 1..Len(upd[u].log.offered) :
                /\ CheckRaises(u, i) =>
                      /\ upd[u].log.offered[i] \in Range(upd[u].log.logged)
                      /\ upd[u].log.offered[i] \notin Range(upd[u].log.ran)
                      /\ GroupWentOn(u, i)
                /\ CallbackRaises(u, i) =>
                      /\ upd[u].log.offered[i] \in Range(upd[u].log.logged)
                      /\ upd[u].log.offered[i] \in Range(upd[u].log.ran)
                      /\ NextGroupTaken(u, i)

\* the parser of the first update raised although a raw-update handler is
\* registered; in the dispatch of the second the check() of one handler of group 0
\* raised, the callback of the other raised, and the handler of group 1 ran; the
\* worker waits for the next update
C30_Witness ==
    /\ Len(upd) = 2
    /\ upd[1].out = "parser error"
    /\ handlers["H3"].cls = "RawUpdateHandler"
    /\ upd[2].status = "done"
    /\ Len(upd[2].log.offered) = 3
    /\ CheckRaises(2, 1)
    /\ CallbackRaises(2, 2)
    /\ upd[2].log.ran = <<upd[2].log.offered[2], [g |-> 1, h |-> "H3"]>>
    /\ tasks[1].pc = "get"

\* registry calls made during the dispatch of an update
GroupsVisited(d) == {d.visited[i] : i \in 1..Len(d.visited)}

CopyOf(d, g) == UNION {d.copies[i].hs : i \in {j \in 1..Len(d.copies) : d.copies[j].g = g}}

\* C31: add_handler or remove_handler called while an update is being
\* dispatched never aborts the dispatch: it does not end in an exception, the
\* handlers considered for a group are those the group held when its iteration
\* began, and unless a handler stops the propagation every group registered
\* when the dispatch began is visited.
C31_RegistryCallsKeepDispatch ==
    (disp.pc = "done" /\ disp.calls > 0) =>
        /\ disp.out # "RuntimeError"
        /\ \A i \in 1..Len(disp.offered) :
              disp.offered[i].h \in CopyOf(disp, disp.offered[i].g)
        /\ disp.out = "handled" => disp.started \subseteq GroupsVisited(disp)

\* C32: the middleware chain is the one start() built: only middlewares
\* registered at the last start() are entered, the outermost of them always,
\* whatever was added or removed since; none is entered when none was
\* registered at start(); and an update without a parser or with a falsy parsed
\* value goes to the handlers directly, through no middleware.
C32_ChainFixedAtStart ==
    \A u \in 1..Len(upd) : upd[u].status = "done" =>
        LET l == upd[u].log
        IN /\ IsPrefix(l.mws, l.started_with)
           /\ l.started_with = <<>> => l.mws = <<>>
           /\ (Parsed(u) /\ l.started_with # <<>>) => l.mws # <<>>
           /\ ~Parsed(u) => l.mws = <<>> /\ ~l.chain /\ upd[u].runs = 1

\* an update went through the middleware found by start() after that
\* middleware had been removed and another one added, and an update without a
\* parser was dispatched by a dispatcher that runs middlewares
C32_Witness ==
    /\ \E u \in 1..Len(upd) :
          /\ upd[u].status = "done" /\ upd[u].log.mws # <<>>
          /\ Range(upd[u].log.registered) # {}
          /\ Range(upd[u].log.registered) \cap Range(upd[u].log.started_with) = {}
    /\ \E u \in 1..Len(upd) :
          /\ upd[u].status = "done" /\ ~Parsed(u)
          /\ upd[u].log.started_with # <<>> /\ upd[u].log.ran # <<>>

\* raw-update handlers
IsRaw(u, h) == upd[u].log.cfg[h].cls = "RawUpdateHandler"

\* every call on a RawUpdateHandler is a callback with (update, users, chats),
\* never a check(), and an update without a parser reaches such handlers only
RawCalls(u) ==
    LET calls == upd[u].log.calls
    IN /\ \A i \in 1..Len(calls) : IsRaw(u, calls[i].h) =>
              calls[i].fn = "callback" /\ calls[i].args = "update, users, chats"
       /\ update_parsers(upd[u].type) = "NoneType" =>
              \A i \in 1..Len(calls) : IsRaw(u, calls[i].h)

\* C33 as stated: a RawUpdateHandler is called with (update, users, chats) and
\* without a filter check whatever the update's type, and when one runs and
\* does not raise ContinuePropagation no other handler of its group runs for
\* the update; an update without a parser reaches raw-update handlers only.
C33_RawHandlerOnlyOfGroup ==
    \A u \in 1..Len(upd) : upd[u].status = "done" =>
        /\ RawCalls(u)
        /\ \A i \in 1..Len(Ran(u)) :
              (IsRaw(u, Ran(u)[i].h) /\ Cb(u, i) # "ContinuePropagation") =>
                  \A j \in 1..Len(Ran(u)) : Ran(u)[j].g = Ran(u)[i].g => j = i

\* C33 amended: as above, but a RawUpdateHandler that runs and does not raise
\* ContinuePropagation is the last handler of its group that runs for the
\* update; the handlers of the group that ran before it raised
\* ContinuePropagation.
C33_RawHandlerLastOfGroup ==
    \A u \in 1..Len(upd) : upd[u].status = "done" =>
        /\ RawCalls(u)
        /\ \A i \in 1..Len(Ran(u)) :
              (IsRaw(u, Ran(u)[i].h) /\ Cb(u, i) # "ContinuePropagation") =>
                  \A j \in 1..Len(Ran(u)) : Ran(u)[j].g = Ran(u)[i].g =>
                      /\ j <= i
                      /\ j < i => Cb(u, j) = "ContinuePropagation"

\* a RawUpdateHandler ran for an update without a parser and left the other
\* handler of its group out, and one ran for a new-message update after a
\* MessageHandler of its group had raised ContinuePropagation
C33_Witness ==
    \E u, v \in 1..Len(upd) :
        /\ upd[u].status = "done" /\ update_parsers(upd[u].type) = "NoneType"
        /\ Len(Ran(u)) = 1 /\ IsRaw(u, Ran(u)[1].h)
        /\ Len(upd[u].log.offered) = 1 /\ Cardinality(Registered(upd[u].log.groups)) = 2
        /\ upd[v].status = "done" /\ upd[v].type \in NEW_MESSAGE_UPDATES
        /\ Len(Ran(v)) = 2 /\ ~IsRaw(v, Ran(v)[1].h) /\ IsRaw(v, Ran(v)[2].h)
        /\ Cb(v, 2) = "return"

\* a stop() call returns in this step
StopReturns == StopsReturned' = StopsReturned + 1

\* C34: a stop() that returns on a dispatcher with updates enabled leaves no
\* handler registered, and one on a dispatcher with no_updates set leaves the
\* registry as it was; an update dispatched after a stop() has returned is not
\* given to H1, which was registered before that stop() only.
C34_StopClearsRegistry ==
    [][/\ (StopReturns /\ ~no_updates) => groups' = <<>>
       /\ (StopReturns /\ no_updates) => groups' = groups
       /\ \A u \in 1..Len(upd') :
             (upd'[u].status = "done" /\ upd'[u].log.stopped > 0) =>
                 \A i \in 1..Len(upd'[u].log.ran) : upd'[u].log.ran[i].h # "H1"]_vars

\* H1 ran for an update before the dispatcher was stopped; after the stop() and
\* a second start() an update was dispatched to H2, which had been registered
\* again, while H1 had not
C34_Witness ==
    \E u, v \in 1..Len(upd) :
        /\ upd[u].status = "done" /\ upd[u].log.stopped = 0 /\ RanSet(u) = {"H1"}
        /\ upd[v].status = "done" /\ upd[v].log.stopped = 1 /\ RanSet(v) = {"H2"}
        /\ starts = 2

\* the put_nowait calls of the handle_updates call on the batch, as positions in
\* events
Puts == {p \in 1..Len(events) : events[p].k = "put"}

\* an answer of GetChannelDifference was merged before event p
MergedBefore(p) == \E q \in 1..(p - 1) : events[q].k = "ChannelDifference"

\* the batch call puts an update on the queue in this step
PutStep == Len(events') > Len(events) /\ events'[Len(events')].k = "put"

\* C35: one handle_updates call on a batch puts its updates on the queue in the
\* order of the batch, each at most once and one per put_nowait, whatever
\* happens while it is suspended; after a ChannelPrivate answer the update is
\* put with the users and chats as they were before the request; a call on an
\* UpdateShortMessage or UpdateShortChatMessage puts at most one update on the
\* queue and a call on UpdatesTooLong none.
C35_BatchOrderAndShortPackets ==
    [][/\ \A p, q \in Puts' : p < q => events'[p].i < events'[q].i
       /\ PutStep =>
             /\ updates_queue' = Append(updates_queue, Len(upd'))
             /\ Len(upd') = Len(upd) + 1
             /\ upd'[Len(upd')].type = hu.batch.updates[events'[Len(events')].i].type
       /\ (hu' # hu /\ ~PutStep) => updates_queue' = updates_queue
       /\ \A p \in 1..Len(events') : events'[p].k = "ChannelPrivate" =>
             /\ p < Len(events') /\ events'[p + 1].k = "put"
             /\ events'[p + 1].i = events'[p].i
             /\ events'[p + 1].users =
                    PeerIds(hu.batch.users) \cup (IF MergedBefore(p)' THEN DiffUsers ELSE {})
             /\ events'[p + 1].chats =
                    PeerIds(hu.batch.chats) \cup (IF MergedBefore(p)' THEN DiffChats ELSE {})
       /\ (\E diff \in ShortDiffs \cup {"other_updates"} :
              handle_updates_short_message(diff)) =>
             /\ Len(updates_queue') <= Len(updates_queue) + 1
             /\ IsPrefix(updates_queue, updates_queue')
       /\ handle_updates_other("UpdatesTooLong") => updates_queue' = updates_queue]_vars

\* a batch of two channel messages was put on the queue in its order, the first
\* after a ChannelPrivate answer, with the update of a short message between
\* them
C35_Witness ==
    /\ hu.pc = "done" /\ Len(hu.batch.updates) = 2
    /\ Cardinality(Puts) = 2
    /\ \E p \in 1..Len(events) : events[p].k = "ChannelPrivate" /\ events[p].i = 1
    /\ Len(updates_queue) = 3 /\ Len(upd) = 3
    /\ upd[2].type = "UpdateNewMessage" /\ upd[2].dicts = 1
    /\ upd[1].type = "UpdateNewChannelMessage" /\ upd[3].type = "UpdateNewChannelMessage"

\* the updates_watchdog task has ended, by its break or by an exception
WatchdogEnded == watchdog.pc \in {"exited", "failed"}

\* C36: the updates watchdog ends only when updates_watchdog_event is set: while
\* the event is not set the task is still running, whatever the answers to its
\* GetState invocations were.
C36_WatchdogEndsOnlyOnEvent == WatchdogEnded => updates_watchdog_event
====
